---- MODULE Spec2Model ----
(***************************************************************************)
(* A model of the four-stroke SI engine simulation: the EnginePhysics      *)
(* class (src/js/engine-physics.js) as a state machine.                    *)
(*                                                                         *)
(* Numbers.  JavaScript numbers are modelled in fixed point; every         *)
(* quantity is an integer count of its least significant unit:            *)
(*   bore, stroke, conRodLength, B_mm, S_mm, L_mm      1 mm                *)
(*   R_mm, crankRadius, piston position                0.1 mm              *)
(*   compressionRatio, rpm, ambientTemperature, R      1                   *)
(*   load, maxLoad                                     0.1 N.m             *)
(*   ambientPressure and every pressure                0.001 bar           *)
(*   gamma and every exponent                          0.01                *)
(*   ignitionAdvance, combustionDuration               1 degree            *)
(*   every volume (m^3 and cm^3 fields alike)          1e-4 cm^3           *)
(*   crank angles                                      1/TicksPerDeg deg   *)
(*   dimensionless ratios, sines, cosines              1/ONE               *)
(* A division truncates where a double would round.                        *)
(***************************************************************************)
EXTENDS Integers, Sequences, FiniteSets, TLC

VARIABLES engine, theta, call, ret, gen, animation, graphGenerator, ui

vars == <<engine, theta, call, ret, gen, animation, graphGenerator, ui>>

\* the objects of the page around the engine
page == <<animation, graphGenerator, ui>>

(***************************************************************************)
(* Scales of the fixed-point representation.                               *)
(***************************************************************************)
\* crank angles are counted in ticks: TicksPerDeg ticks to a degree
TicksPerDeg == 2

Deg(d) == d * TicksPerDeg

\* dimensionless quantities are counted in 1/ONE
ONE == 10 * 1000

\* Math.PI, in 1/ONE
PI == 31416

\* the period of the four-stroke cycle, in degrees
CycleDeg == 720

(***************************************************************************)
(* The configuration: the fields the constructor sets from its argument,   *)
(* the constants it sets, and the fields calculateDerivedValues caches.    *)
(***************************************************************************)
ParamFields ==
    {"bore", "stroke", "conRodLength", "compressionRatio", "rpm", "load",
     "maxLoad", "ambientPressure", "ambientTemperature"}

ConstFields == {"gamma", "R", "ignitionAdvance", "combustionDuration"}

ConfigFields == ParamFields \cup ConstFields

DerivedFields ==
    {"crankRadius", "displacementVolume", "displacementVolumeCc",
     "clearanceVolume", "clearanceVolumeCc", "totalVolume", "totalVolumeCc",
     "B_mm", "S_mm", "L_mm", "R_mm"}

Fields == ConfigFields \cup DerivedFields

\* the constructor's default of each field it reads from params
Defaults ==
    [bore |-> 80, stroke |-> 110, conRodLength |-> 220, compressionRatio |-> 8,
     rpm |-> 1857, load |-> 111, maxLoad |-> 200,
     ambientPressure |-> 1013, ambientTemperature |-> 298]

\* the constants the constructor sets whatever params holds
FixedValues ==
    [gamma |-> 140, R |-> 287, ignitionAdvance |-> 15, combustionDuration |-> 50]

\* JavaScript's  params.f || d : d when f is absent or falsy (0)
OrDefault(params, f, d) ==
    IF f \in DOMAIN params /\ params[f] # 0 THEN params[f] ELSE d

\* Object.assign(target, params): every field of params overwrites target's
ObjectAssign(target, params) ==
    [f \in DOMAIN target \cup DOMAIN params |->
        IF f \in DOMAIN params THEN params[f] ELSE target[f]]

\* (Math.PI * B * B / 4), the bore area, in 0.01 mm^2
BoreArea(bore) == ((PI * bore * bore) \div 4) \div 100

\* the values of JavaScript numbers that are not finite numbers
NaN == 0 - 2147483647

Infinity == 2147483647

NegInfinity == 0 - 2147483646

IsNaN(x) == x = NaN

IsFinite(x) == x # NaN /\ x # Infinity /\ x # NegInfinity

\* a / b of JavaScript for a finite a and an integer b: a division by zero
\* gives an infinity, 0 / 0 gives NaN
JsDiv(a, b) ==
    IF b = 0 THEN (IF a = 0 THEN NaN ELSE IF a > 0 THEN Infinity ELSE NegInfinity)
    ELSE IF b > 0 THEN a \div b
    ELSE -(a \div (-b))

\* a + b of JavaScript
JsAdd(a, b) ==
    IF IsNaN(a) \/ IsNaN(b) THEN NaN
    ELSE IF a = Infinity THEN (IF b = NegInfinity THEN NaN ELSE Infinity)
    ELSE IF a = NegInfinity THEN (IF b = Infinity THEN NaN ELSE NegInfinity)
    ELSE IF ~IsFinite(b) THEN b
    ELSE a + b

\* a mutation of calculateDerivedValues: the total volume is computed
\* before the clearance volume is refreshed, from the cached value
calculateDerivedValuesReordered(e) ==
    LET displacementVolume == (BoreArea(e.bore) * (e.stroke * 10)) \div 100
        totalVolume == e.clearanceVolume + displacementVolume
        clearanceVolume == displacementVolume \div (e.compressionRatio - 1)
    IN  [f \in Fields |->
          CASE f = "crankRadius"          -> (e.stroke * 10) \div 2
            [] f = "displacementVolume"   -> displacementVolume
            [] f = "displacementVolumeCc" -> displacementVolume
            [] f = "clearanceVolume"      -> clearanceVolume
            [] f = "clearanceVolumeCc"    -> clearanceVolume
            [] f = "totalVolume"          -> totalVolume
            [] f = "totalVolumeCc"        -> totalVolume
            [] f = "B_mm"                 -> e.bore
            [] f = "S_mm"                 -> e.stroke
            [] f = "L_mm"                 -> e.conRodLength
            [] f = "R_mm"                 -> (e.stroke * 10) \div 2
            [] OTHER                      -> e[f]]

\* a mutation of calculateDerivedValues: the clearance volume is the
\* displacement volume divided by compressionRatio
calculateDerivedValuesByRatio(e) ==
    LET S == e.stroke
        displacementVolume == (BoreArea(e.bore) * (S * 10)) \div 100
        clearanceVolume == JsDiv(displacementVolume, e.compressionRatio)
        totalVolume == JsAdd(clearanceVolume, displacementVolume)
    IN  [f \in Fields |->
          CASE f = "crankRadius"          -> (S * 10) \div 2
            [] f = "displacementVolume"   -> displacementVolume
            [] f = "displacementVolumeCc" -> displacementVolume
            [] f = "clearanceVolume"      -> clearanceVolume
            [] f = "clearanceVolumeCc"    -> clearanceVolume
            [] f = "totalVolume"          -> totalVolume
            [] f = "totalVolumeCc"        -> totalVolume
            [] f = "B_mm"                 -> e.bore
            [] f = "S_mm"                 -> e.stroke
            [] f = "L_mm"                 -> e.conRodLength
            [] f = "R_mm"                 -> (e.stroke * 10) \div 2
            [] OTHER                      -> e[f]]

\* calculateDerivedValues: every derived field recomputed from the
\* configuration fields of e, every other field left as it is
calculateDerivedValues(e) ==
    LET B == e.bore
        S == e.stroke
        L == e.conRodLength
        crankRadius == (S * 10) \div 2
        displacementVolume == (BoreArea(B) * (S * 10)) \div 100
        displacementVolumeCc == displacementVolume
        clearanceVolume == JsDiv(displacementVolume, e.compressionRatio - 1)
        clearanceVolumeCc == clearanceVolume
        totalVolume == JsAdd(clearanceVolume, displacementVolume)
        totalVolumeCc == totalVolume
    IN  [f \in Fields |->
          CASE f = "crankRadius"          -> crankRadius
            [] f = "displacementVolume"   -> displacementVolume
            [] f = "displacementVolumeCc" -> displacementVolumeCc
            [] f = "clearanceVolume"      -> clearanceVolume
            [] f = "clearanceVolumeCc"    -> clearanceVolumeCc
            [] f = "totalVolume"          -> totalVolume
            [] f = "totalVolumeCc"        -> totalVolumeCc
            [] f = "B_mm"                 -> e.bore
            [] f = "S_mm"                 -> e.stroke
            [] f = "L_mm"                 -> e.conRodLength
            [] f = "R_mm"                 -> (e.stroke * 10) \div 2
            [] OTHER                      -> e[f]]

\* the object as the constructor leaves it before it calls
\* calculateDerivedValues: derived fields are not yet set (0 stands for unset)
ConstructorFields(params) ==
    [f \in Fields |->
        IF f \in ParamFields THEN OrDefault(params, f, Defaults[f])
        ELSE IF f \in ConstFields THEN FixedValues[f]
        ELSE 0]

Constructor(params) == calculateDerivedValues(ConstructorFields(params))

\* a mutation of updateParams: the merge alone, the derived geometry left stale
updateParamsStale(e, params) == ObjectAssign(e, params)

\* a mutation of updateParams: the object is rebuilt from params, so a field
\* params does not name falls back to its default
updateParamsReplace(e, params) == Constructor(params)

updateParams(e, params) == calculateDerivedValues(ObjectAssign(e, params))

(***************************************************************************)
(* Arithmetic helpers.                                                     *)
(***************************************************************************)
\* JavaScript's a % b for b > 0: the remainder takes the sign of a
JsRem(a, b) == IF a >= 0 THEN a % b ELSE -((-a) % b)

\* a / b for b > 0, truncated toward zero
Quot(a, b) == IF a >= 0 THEN a \div b ELSE -((-a) \div b)

\* floor(num * ONE / den) for num >= 0, den > 0, in two steps of 100 so that
\* no intermediate product leaves 32 bits
ScaleDiv(num, den) ==
    LET h == (num * 100) \div den
        r == (num * 100) % den
    IN  h * 100 + (r * 100) \div den

RECURSIVE SqrtIter(_, _)
SqrtIter(n, g) ==
    LET g2 == (g + n \div g) \div 2
    IN  IF g2 >= g THEN g ELSE SqrtIter(n, g2)

\* floor of the square root of n >= 0
ISqrt(n) == IF n = 0 THEN 0 ELSE SqrtIter(n, n)

\* Math.sqrt of q (in 1/ONE), in 1/ONE; NaN for a negative q
MathSqrt(q) == IF q < 0 THEN NaN ELSE ISqrt(q * ONE)

\* the sine of a tick angle a in [0, 180 degrees], in 1/ONE (Bhaskara's
\* rational approximation 4x(180-x)/(40500-x(180-x)), exact at 0, 30, 90,
\* 150 and 180 degrees)
SinHalfTurn(a) ==
    LET p == a * (Deg(180) - a)
    IN  ScaleDiv(4 * p, 40500 * TicksPerDeg * TicksPerDeg - p)

\* Math.sin(theta * Math.PI / 180) for a tick angle t, in 1/ONE
MathSin(t) ==
    LET a == t % Deg(360)
    IN  IF a <= Deg(180) THEN SinHalfTurn(a) ELSE -SinHalfTurn(a - Deg(180))

\* Math.cos(theta * Math.PI / 180) for a tick angle t, in 1/ONE
MathCos(t) == MathSin(t + Deg(90))

\* Math.asin(s) * 180 / Math.PI for s in 1/ONE, in ticks: the inverse of
\* MathSin on [-90, 90] degrees; NaN outside [-1, 1]
RECURSIVE AsinSearch(_, _, _)
AsinSearch(s, lo, hi) ==
    IF lo >= hi THEN lo
    ELSE LET mid == (lo + hi + 1) \div 2
         IN  IF MathSin(mid) <= s THEN AsinSearch(s, mid, hi)
             ELSE AsinSearch(s, lo, mid - 1)

MathAsin(s) ==
    IF s > ONE \/ s < -ONE THEN NaN
    ELSE IF s >= 0 THEN AsinSearch(s, 0, Deg(90))
    ELSE -AsinSearch(-s, 0, Deg(90))

\* the natural logarithm of 2, in 1/ONE
LN2 == 6931

\* the square root of 2, in 1/ONE
SQRT2 == 14142

\* the k and m with x = m * 2^k and m in [1/sqrt 2, sqrt 2), for x > 0, as
\* <<k, m>>
RECURSIVE Mantissa(_, _)
Mantissa(x, k) ==
    IF x >= SQRT2 THEN Mantissa(x \div 2, k + 1)
    ELSE IF 2 * x < SQRT2 THEN Mantissa(x * 2, k - 1)
    ELSE <<k, x>>

\* Math.log(x) for x > 0 in 1/ONE, in 1/ONE: ln x = k ln 2 + 2 atanh z with
\* z = (m - 1)/(m + 1), the series cut after z^7
MathLog(x) ==
    LET km == Mantissa(x, 0)
        m  == km[2]
        z  == Quot((m - ONE) * ONE, m + ONE)
        z2 == (z * z) \div ONE
        s3 == ONE \div 7
        s2 == ONE \div 5 + (z2 * s3) \div ONE
        s1 == ONE \div 3 + (z2 * s2) \div ONE
        s0 == ONE + (z2 * s1) \div ONE
    IN  km[1] * LN2 + Quot(2 * z * s0, ONE)

\* 2^k * v for an integer k of either sign
RECURSIVE Shift(_, _)
Shift(v, k) ==
    IF k = 0 THEN v
    ELSE IF k > 0 THEN Shift(v * 2, k - 1)
    ELSE Shift(v \div 2, k + 1)

\* Math.exp(y) for y in 1/ONE, in 1/ONE: y = k ln 2 + f with f in [0, ln 2),
\* exp f by its series cut after f^6
MathExp(y) ==
    LET k  == y \div LN2
        f  == y - k * LN2
        s5 == ONE + f \div 6
        s4 == ONE + (f * s5) \div (5 * ONE)
        s3 == ONE + (f * s4) \div (4 * ONE)
        s2 == ONE + (f * s3) \div (3 * ONE)
        s1 == ONE + (f * s2) \div (2 * ONE)
        s0 == ONE + (f * s1) \div ONE
    IN  Shift(s0, k)

\* Math.pow(x, n) for x >= 0 in 1/ONE and an exponent n > 0 in 0.01, in 1/ONE
MathPow(x, n) ==
    IF IsNaN(x) THEN NaN
    ELSE IF x = 0 THEN 0
    ELSE IF x = ONE THEN ONE
    ELSE MathExp(Quot(n * MathLog(x), 100))

\* a / b in 1/ONE for a >= 0 and b > 0 (NaN when either is NaN)
Ratio(a, b) == IF IsNaN(a) \/ IsNaN(b) THEN NaN ELSE ScaleDiv(a, b)

\* a * f for a factor f in 1/ONE (NaN when either is NaN)
Times(a, f) == IF IsNaN(a) \/ IsNaN(f) THEN NaN ELSE Quot(a * f, ONE)

(***************************************************************************)
(* The queries of a crank angle.  theta is a tick angle, of either sign.     *)
(***************************************************************************)
\* a mutation of Normalize: theta % 720 alone, which keeps the sign of theta
NormalizeSigned(th) == JsRem(th, Deg(CycleDeg))

\* ((theta % 720) + 720) % 720
Normalize(th) == JsRem(JsRem(th, Deg(CycleDeg)) + Deg(CycleDeg), Deg(CycleDeg))

\* a mutation of SliderCrank: R * (1 + cos(theta)), the displacement taken
\* from the bottom dead centre
SliderCrankFromBDC(R, L, th) ==
    LET lambda == Quot(R * 1000, L)
        sinTheta == MathSin(th)
        cosTheta == MathCos(th)
        q == ONE - (((lambda * lambda) \div ONE) * ((sinTheta * sinTheta) \div ONE)) \div ONE
        root == MathSqrt(q)
    IN  IF IsNaN(root) THEN NaN
        ELSE (R * (ONE + cosTheta)) \div ONE + (L * 10 * (ONE - root)) \div ONE

\* the displacement of the piston from TDC, in 0.1 mm, from R (0.1 mm) and
\* L (mm): x = R(1 - cos) + L(1 - sqrt(1 - lambda^2 sin^2))
SliderCrank(R, L, th) ==
    LET lambda == Quot(R * 1000, L)
        sinTheta == MathSin(th)
        cosTheta == MathCos(th)
        q == ONE - (((lambda * lambda) \div ONE) * ((sinTheta * sinTheta) \div ONE)) \div ONE
        root == MathSqrt(q)
    IN  IF IsNaN(root) THEN NaN
        ELSE (R * (ONE - cosTheta)) \div ONE + (L * 10 * (ONE - root)) \div ONE

getPistonPosition(e, th) == SliderCrank(e.R_mm, e.L_mm, th)

\* the cylinder volume in 1e-4 cm^3; sweptVolume is in 0.001 mm^3
getVolume(e, th) ==
    LET x == SliderCrank(e.R_mm, e.L_mm, th)
    IN  IF IsNaN(x) THEN NaN
        ELSE LET sweptVolume == BoreArea(e.B_mm) * x
             IN  JsAdd(e.clearanceVolumeCc, sweptVolume \div 100)

\* the connecting-rod angle in ticks
getConRodAngle(e, th) ==
    LET sinBeta == Quot(Quot(e.R_mm * 1000, e.L_mm) * MathSin(th), ONE)
    IN  MathAsin(sinBeta)

\* a mutation of getPhase: theta is not normalized
getPhaseRaw(th) ==
    IF th >= 0 /\ th < Deg(180) THEN "Suction"
    ELSE IF th >= Deg(180) /\ th < Deg(360) THEN "Compression"
    ELSE IF th >= Deg(360) /\ th < Deg(540) THEN "Power"
    ELSE "Exhaust"

getPhase(th) ==
    LET t == Normalize(th)
    IN  IF t >= 0 /\ t < Deg(180) THEN "Suction"
        ELSE IF t >= Deg(180) /\ t < Deg(360) THEN "Compression"
        ELSE IF t >= Deg(360) /\ t < Deg(540) THEN "Power"
        ELSE "Exhaust"

\* a mutation of getValveStates: the result built from the unused locals
\* intakeOpen and exhaustOpen
getValveStatesLocals(th) ==
    LET t == Normalize(th)
        intakeOpen == (t >= Deg(350) \/ t <= Deg(220))
        exhaustOpen == (t >= Deg(500) /\ t <= Deg(720)) \/ (t >= 0 /\ t <= Deg(20))
    IN  [intake |-> intakeOpen, exhaust |-> exhaustOpen]

\* a mutation of getValveStates: the exhaust valve still open at 20 degrees
getValveStatesOverlap(th) ==
    LET t == Normalize(th)
    IN  [intake  |-> (t >= 0 /\ t < Deg(180)) \/ t > Deg(700),
         exhaust |-> t >= Deg(540) \/ t <= Deg(20)]

getValveStates(th) ==
    LET t == Normalize(th)
    IN  [intake  |-> (t >= 0 /\ t < Deg(180)) \/ t > Deg(700),
         exhaust |-> t >= Deg(540) \/ t < Deg(20)]

\* a mutation of isSparkFiring: the window's end excluded
isSparkFiringOpen(e, th) ==
    LET t == Normalize(th)
        sparkStart == Deg(360 - e.ignitionAdvance)
    IN  t >= sparkStart /\ t < sparkStart + Deg(10)

isSparkFiring(e, th) ==
    LET t == Normalize(th)
        sparkStart == Deg(360 - e.ignitionAdvance)
    IN  t >= sparkStart /\ t <= sparkStart + Deg(10)

\* Math.max(P, 0.1) in 0.001 bar; NaN when P is NaN
FloorPressure(P) == IF IsNaN(P) THEN NaN ELSE IF P > 100 THEN P ELSE 100

\* progress * progress * (3 - 2 * progress), progress in 1/ONE
Smoothstep(progress) ==
    (((progress * progress) \div ONE) * (3 * ONE - 2 * progress)) \div ONE

\* (a - b) / (c - b) for tick angles b <= a and b < c, in 1/ONE
Progress(a, b, c) == ((a - b) * ONE) \div (c - b)

\* a mutation of getTheoreticalPressure: the power stroke keeps the angle
\* 540 (theta <= 540), so the exhaust stroke starts after it
getTheoreticalPressureLateExhaust(e, th) ==
    LET t == Normalize(th)
        V == getVolume(e, t)
        P_atm == e.ambientPressure
        gamma == e.gamma
        loadFactor == 15000 + 2 * Quot(e.load * ONE, e.maxLoad)
    IN  IF t >= 0 /\ t < Deg(180) THEN P_atm
        ELSE IF t >= Deg(180) /\ t < Deg(360) THEN
            LET V_at_180 == getVolume(e, Deg(180))
            IN  Times(P_atm, MathPow(Ratio(V_at_180, V), gamma))
        ELSE IF t >= Deg(360) /\ t <= Deg(540) THEN
            LET P_compression == Times(P_atm, MathPow(e.compressionRatio * ONE, gamma))
                P_peak == Times(P_compression, loadFactor)
                V_at_360 == getVolume(e, Deg(360))
            IN  Times(P_peak, MathPow(Ratio(V_at_360, V), gamma))
        ELSE P_atm

\* the pressure of the ideal Otto cycle, in 0.001 bar
getTheoreticalPressure(e, th) ==
    LET t == Normalize(th)
        V == getVolume(e, t)
        P_atm == e.ambientPressure
        gamma == e.gamma
        loadFactor == 15000 + 2 * Quot(e.load * ONE, e.maxLoad)
    IN  IF t >= 0 /\ t < Deg(180) THEN P_atm
        ELSE IF t >= Deg(180) /\ t < Deg(360) THEN
            LET V_at_180 == getVolume(e, Deg(180))
            IN  Times(P_atm, MathPow(Ratio(V_at_180, V), gamma))
        ELSE IF t >= Deg(360) /\ t < Deg(540) THEN
            LET P_compression == Times(P_atm, MathPow(e.compressionRatio * ONE, gamma))
                P_peak == Times(P_compression, loadFactor)
                V_at_360 == getVolume(e, Deg(360))
            IN  Times(P_peak, MathPow(Ratio(V_at_360, V), gamma))
        ELSE P_atm

\* peakPressureMultiplier of getActualPressure, in 1/ONE
PeakPressureMultiplier(e) ==
    LET loadFraction == Quot(e.load * ONE, e.maxLoad)
        rpmNormalized == Quot(e.rpm * ONE, 2000)
        dev == rpmNormalized - ONE
        rpmEfficiency == ONE - Quot(1500 * (IF dev < 0 THEN -dev ELSE dev), ONE)
    IN  Quot((2 * ONE + Quot(18000 * loadFraction, ONE))
               * (8500 + Quot(1500 * rpmEfficiency, ONE)), ONE)

\* the power stroke of getActualPressure after 400 degrees: the polytropic
\* value P1, blended toward 1.5 atmospheres after 500 degrees
ExpansionBlend(t, P_atm, P1) ==
    LET blend == Progress(t, Deg(500), Deg(540))
        P_evo == Times(P_atm, 15000)
    IN  IF t > Deg(500) /\ ~IsNaN(P1) THEN
          Times(P1, ONE - Quot(blend * 3000, ONE))
            + Times(Times(P_evo, blend), 3000)
        ELSE P1

\* the suction branch of getActualPressure at the tick angle t:
\* P_atm * (1 - vacuumDepth * sin(pi * theta / 180))
SuctionPressure(e, t) ==
    LET vacuumDepth == 1000 + Quot(2500 * Quot(e.rpm * ONE, 4000), ONE)
        vacuumProfile == MathSin(t)
    IN  Times(e.ambientPressure, ONE - Quot(vacuumDepth * vacuumProfile, ONE))

\* a mutation of CompressionStart: the compression starts at P_atm
CompressionStartAtAmbient(P_atm) == P_atm

\* P_start of the compression branch of getActualPressure: P_atm * 0.95
CompressionStart(P_atm) == Times(P_atm, 9500)

\* the six branches of getActualPressure at the normalized angle t, from the
\* values the method computes before it branches
SixPhases(e, t, V, V_BDC, V_at_400, P_compression, P_peak, P_at_400) ==
    LET P_atm == e.ambientPressure
        n_compression == 132
        n_expansion == 128
        theta_peak == Deg(372)
    IN  IF t >= 0 /\ t < Deg(180) THEN SuctionPressure(e, t)
        ELSE IF t >= Deg(180) /\ t < Deg(360) THEN
          Times(CompressionStart(P_atm), MathPow(Ratio(V_BDC, V), n_compression))
        ELSE IF t >= Deg(360) /\ t < Deg(400) THEN
          IF t <= theta_peak THEN
            LET smooth == Smoothstep(Progress(t, Deg(360), theta_peak))
            IN  IF IsNaN(P_peak) THEN NaN
                ELSE P_compression + Times(P_peak - P_compression, smooth)
          ELSE
            LET smooth == Smoothstep(Progress(t, theta_peak, Deg(400)))
            IN  IF IsNaN(P_at_400) THEN NaN
                ELSE P_peak - Times(P_peak - P_at_400, smooth)
        ELSE IF t >= Deg(400) /\ t < Deg(540) THEN
          ExpansionBlend(t, P_atm,
                         Times(P_at_400, MathPow(Ratio(V_at_400, V), n_expansion)))
        ELSE IF t >= Deg(540) /\ t < Deg(600) THEN
          LET progress == Progress(t, Deg(540), Deg(600))
              smoothDrop == ONE - MathPow(ONE - progress, 250)
              P_before == Times(P_atm, 2 * ONE)
              P_exhaust == Times(P_atm, 11500)
          IN  P_before - Times(P_before - P_exhaust, smoothDrop)
        ELSE
          LET exhaustHeight == 800 + Quot(2000 * Quot(e.rpm * ONE, 4000), ONE)
              exhaustProfile == MathSin(t - Deg(540))
          IN  Times(P_atm, ONE + Quot(exhaustHeight * exhaustProfile, ONE))

\* getActualPressure from P_peak on: P_at_400 is P_peak carried along the
\* expansion from the peak angle (372 degrees) to 400 degrees
SixPhasesFromPeak(e, t, V_at_400, P_compression, P_peak) ==
    SixPhases(e, t, getVolume(e, t), getVolume(e, Deg(180)), V_at_400,
              P_compression, P_peak,
              Times(P_peak, MathPow(Ratio(getVolume(e, Deg(372)), V_at_400), 128)))

\* getActualPressure from P_compression on: P_peak is P_compression times
\* peakPressureMultiplier
SixPhasesFromCompression(e, t, P_compression) ==
    SixPhasesFromPeak(e, t, getVolume(e, Deg(400)), P_compression,
                      Times(P_compression, PeakPressureMultiplier(e)))

\* the pressure of the six-phase indicator diagram, in 0.001 bar
getActualPressure(e, th) ==
    FloorPressure(
        SixPhasesFromCompression(
            e, Normalize(th),
            Times(Times(e.ambientPressure, 9500),
                  MathPow(Ratio(getVolume(e, Deg(180)), getVolume(e, Deg(360))), 132))))

\* Math.max(a, b) of two pressures: NaN when either is NaN
MathMax(a, b) == IF IsNaN(a) \/ IsNaN(b) THEN NaN ELSE IF a > b THEN a ELSE b

\* the combustion branch of the Wiebe getActualPressure: the pressure carried
\* from the ignition plus the burnt fraction of the rise to P_peak
WiebeBurnt(P_peak, P_ignition, burnFraction, carried) ==
    IF IsNaN(carried) \/ IsNaN(P_peak) \/ IsNaN(P_ignition) THEN NaN
    ELSE carried + Times(P_peak - P_ignition, burnFraction)

\* the combustion branch of the Wiebe getActualPressure: between 360 and 375
\* degrees the pressure P is at least P_peak * sin((theta - 360) * 6)
WiebePeakSpike(t, P_peak, P) ==
    IF t > Deg(360) /\ t < Deg(375)
    THEN MathMax(P, Times(P_peak, MathSin((t - Deg(360)) * 6)))
    ELSE P

\* the combustion branch of the Wiebe getActualPressure
WiebeCombustion(e, t, V, P_peak, V_at_ignition, P_ignition) ==
    LET gamma_actual == e.gamma - 5
        theta_ignition == Deg(360 - e.ignitionAdvance)
        theta_end == Deg(360 + e.combustionDuration)
        combustionProgress == Progress(t, theta_ignition, theta_end)
        cube == (((combustionProgress * combustionProgress) \div ONE)
                   * combustionProgress) \div ONE
        burnFraction == ONE - MathExp(-(5 * cube))
    IN  WiebePeakSpike(
            t, P_peak,
            WiebeBurnt(P_peak, P_ignition, burnFraction,
                       Times(P_ignition,
                             MathPow(Ratio(V_at_ignition, V),
                                     Quot(gamma_actual * 3, 10)))))

\* the blowdown branch of the Wiebe getActualPressure, from the pressure
\* P_before_evo at 540 degrees
WiebeBlowdown(t, P_atm, P_before_evo) ==
    LET blowdownProgress == Progress(t, Deg(540), Deg(560))
        P_exhaust == Times(P_atm, 11000)
    IN  IF IsNaN(P_before_evo) THEN NaN
        ELSE P_before_evo - Times(P_before_evo - P_exhaust, blowdownProgress)

\* the six branches of the Wiebe getActualPressure at the normalized angle
\* t, from the values the method computes before it branches
WiebePhases(e, t, V, V_at_180, V_at_peak, V_at_ignition, P_peak) ==
    LET P_atm == e.ambientPressure
        gamma_actual == e.gamma - 5
        theta_ignition == Deg(360 - e.ignitionAdvance)
        theta_end == Deg(360 + e.combustionDuration)
    IN  IF t >= 0 /\ t < Deg(180) THEN
          Times(P_atm, 8500 + Quot(1000 * MathSin(t), ONE))
        ELSE IF t >= Deg(180) /\ t < theta_ignition THEN
          Times(Times(P_atm, MathPow(Ratio(V_at_180, V), gamma_actual)), 9500)
        ELSE IF t >= theta_ignition /\ t < theta_end THEN
          WiebeCombustion(
              e, t, V, P_peak, V_at_ignition,
              Times(Times(P_atm, MathPow(Ratio(V_at_180, V_at_ignition),
                                         gamma_actual)), 9500))
        ELSE IF t >= theta_end /\ t < Deg(540) THEN
          Times(P_peak, MathPow(Ratio(V_at_peak, V), gamma_actual - 10))
        ELSE IF t >= Deg(540) /\ t < Deg(560) THEN
          WiebeBlowdown(
              t, P_atm,
              Times(P_peak, MathPow(Ratio(V_at_peak, getVolume(e, Deg(540))),
                                    gamma_actual - 10)))
        ELSE
          Times(P_atm, 11000 - Quot(500 * MathSin(t - Deg(540)), ONE))

\* getActualPressure of the Wiebe variant of the class, in 0.001 bar
getActualPressureWiebe(e, th) ==
    LET P_atm == e.ambientPressure
        gamma_actual == e.gamma - 5
        loadFactor == 15000 + Quot(25000 * Quot(e.load * ONE, e.maxLoad), ONE)
        rpmFactor == ONE - Quot((e.rpm - 1500) * ONE, 15000)
        P_compression == Times(P_atm, MathPow(e.compressionRatio * ONE, gamma_actual))
    IN  FloorPressure(
            WiebePhases(e, Normalize(th), getVolume(e, Normalize(th)),
                        getVolume(e, Deg(180)), getVolume(e, Deg(370)),
                        getVolume(e, Deg(360 - e.ignitionAdvance)),
                        Times(Times(P_compression, loadFactor), rpmFactor)))

\* one element of the array generateCycleData builds
CyclePoint(e, cycleType, th) ==
    [theta    |-> th,
     volume   |-> getVolume(e, th),
     pressure |-> IF cycleType = "theoretical" THEN getTheoreticalPressure(e, th)
                  ELSE getActualPressure(e, th),
     phase    |-> getPhase(th)]

\* x.toFixed(n) for x >= 0: x rounded to the unit of its last kept decimal,
\* drop being the number of units of x in one such unit
ToFixed(x, drop) == IF IsNaN(x) THEN NaN ELSE (x + drop \div 2) \div drop

Abs(x) == IF IsNaN(x) THEN NaN ELSE IF x < 0 THEN -x ELSE x

\* the trapezoid sum of getPerformanceMetrics over the segments ending at
\* data[lo] .. data[hi], in 1e-4 J: avgP in 0.01 bar times dV in 1e-4 cm^3,
\* each term cut to 0.001 bar.cm^3.  The terms are integers, so the sum is
\* taken by halves instead of left to right.
RECURSIVE Work(_, _, _)
Work(data, lo, hi) ==
    IF lo > hi THEN 0
    ELSE IF lo = hi
    THEN LET dV == data[lo].volume - data[lo - 1].volume
             avgP == Quot((data[lo].pressure + data[lo - 1].pressure) \div 2, 10)
         IN  Quot(avgP * dV, 1000)
    ELSE LET mid == (lo + hi) \div 2
         IN  Work(data, lo, mid) + Work(data, mid + 1, hi)

\* a mutation of PerformanceMetrics: the thermal efficiency is taken from
\* the sampled curve, as the indicated mean effective pressure over the
\* ambient pressure
PerformanceMetricsIndicated(e, data) ==
    LET bad == \E i \in 1..Len(data) : IsNaN(data[i].volume) \/ IsNaN(data[i].pressure)
        work == IF bad THEN NaN ELSE Work(data, 2, Len(data))
        imepBar == IF bad THEN NaN
                   ELSE IF work >= 0 THEN ScaleDiv(work, e.displacementVolume)
                   ELSE -ScaleDiv(-work, e.displacementVolume)
        indicatedPower == IF bad THEN NaN ELSE Quot(Abs(work), 60 * 2) * e.rpm
        thermalEfficiency == IF bad THEN NaN ELSE Quot(Abs(imepBar) * 100, e.ambientPressure)
        meanPistonSpeed == 2 * e.stroke * e.rpm
    IN  [displacementVolume |-> ToFixed(e.displacementVolumeCc, 1000),
         compressionRatio   |-> ToFixed(e.compressionRatio * 10, 1),
         imep               |-> ToFixed(Abs(imepBar), 10),
         indicatedPower     |-> ToFixed(indicatedPower, 100000),
         thermalEfficiency  |-> ToFixed(thermalEfficiency * 100, 1000),
         meanPistonSpeed    |-> ToFixed(meanPistonSpeed, 600),
         work               |-> work,
         points             |-> Len(data)]

\* the object getPerformanceMetrics returns from the sampled data: the
\* toFixed strings as counts of their last decimal, and the signed work
PerformanceMetrics(e, data) ==
    LET bad == \E i \in 1..Len(data) : IsNaN(data[i].volume) \/ IsNaN(data[i].pressure)
        work == IF bad THEN NaN ELSE Work(data, 2, Len(data))
        imepBar == IF bad THEN NaN
                   ELSE IF work >= 0 THEN ScaleDiv(work, e.displacementVolume)
                   ELSE -ScaleDiv(-work, e.displacementVolume)
        indicatedPower == IF bad THEN NaN ELSE Quot(Abs(work), 60 * 2) * e.rpm
        thermalEfficiency == ONE - MathPow(ONE \div e.compressionRatio, e.gamma - 100)
        meanPistonSpeed == 2 * e.stroke * e.rpm
    IN  [displacementVolume |-> ToFixed(e.displacementVolumeCc, 1000),
         compressionRatio   |-> ToFixed(e.compressionRatio * 10, 1),
         imep               |-> ToFixed(Abs(imepBar), 10),
         indicatedPower     |-> ToFixed(indicatedPower, 100000),
         thermalEfficiency  |-> ToFixed(thermalEfficiency * 100, 1000),
         meanPistonSpeed    |-> ToFixed(meanPistonSpeed, 600),
         work               |-> work,
         points             |-> Len(data)]

\* generateCycleData(cycleType, resolution) for a positive resolution: the
\* points for theta = 0, resolution, ... while theta <= 720
generateCycleData(e, cycleType, resolution) ==
    [i \in 1..(Deg(CycleDeg) \div resolution + 1) |->
        CyclePoint(e, cycleType, (i - 1) * resolution)]

\* getPerformanceMetrics(): the metrics of the actual cycle sampled every degree
getPerformanceMetrics(e) ==
    PerformanceMetrics(e, generateCycleData(e, "actual", Deg(1)))

\* one element of the array generateCycleData builds in the Wiebe file
CyclePointWiebe(e, cycleType, th) ==
    [theta    |-> th,
     volume   |-> getVolume(e, th),
     pressure |-> IF cycleType = "theoretical" THEN getTheoreticalPressure(e, th)
                  ELSE getActualPressureWiebe(e, th),
     phase    |-> getPhase(th)]

\* generateCycleData of the Wiebe file: the text of the six-phase file,
\* calling its own getActualPressure
generateCycleDataWiebe(e, cycleType, resolution) ==
    [i \in 1..(Deg(CycleDeg) \div resolution + 1) |->
        CyclePointWiebe(e, cycleType, (i - 1) * resolution)]

(***************************************************************************)
(* The objects of the page.  A field a constructor has not set is absent   *)
(* from the record, as it is from the JavaScript object.                   *)
(***************************************************************************)
\* updateDimensions(): the drawn bore and stroke, in 0.1 pixel
Dimensions(e) == [bore |-> e.bore * 6, stroke |-> e.stroke * 5]

\* new EngineAnimation(canvasId, engine): found tells whether
\* document.getElementById(canvasId) found the canvas.  engine tells that
\* this.engine refers to the engine.  canvasShows is the crank angle of the
\* last drawing on the canvas (-1: nothing drawn yet); frames is the number
\* of requested animation frames not yet fired or cancelled and fired the
\* number of frames fired so far; animationSpeed is in 0.1; animationId 0
\* stands for null and 1 for the id of the last requested frame; now is
\* what performance.now() returns, in milliseconds since the construction.
NewEngineAnimation(found, e) ==
    IF found
    THEN ObjectAssign(
           [canvas |-> TRUE, ctx |-> TRUE, engine |-> TRUE, isRunning |-> FALSE,
            currentAngle |-> 0, animationSpeed |-> 10, lastFrameTime |-> 0,
            animationId |-> 0, frames |-> 0, fired |-> 0, canvasShows |-> -1,
            now |-> 0],
           Dimensions(e))
    ELSE [canvas |-> FALSE, frames |-> 0, fired |-> 0, now |-> 0]

\* this.pvChart = null
NoChart == [exists |-> FALSE]

\* new Chart(ctx, {type: 'scatter', data: {datasets: []}, ...})
NewChart == [exists |-> TRUE, datasets |-> <<>>]

\* new GraphGenerator(); initPVChart('pvChart'); initPThetaChart('pthetaChart'):
\* a chart is created when its canvas is found
NewGraphGenerator(pvFound, pthetaFound) ==
    [pvChart     |-> IF pvFound THEN NewChart ELSE NoChart,
     pthetaChart |-> IF pthetaFound THEN NewChart ELSE NoChart]

\* the UIControls object: listening tells whether initControls has
\* registered its handlers; selectedLoads are indices into loadConfigs
NoUIControls == [listening |-> FALSE]

\* this.loadConfigs: the loads of the checkboxes, by index
loadConfigs ==
    [i \in 0..4 |->
        CASE i = 0 -> [load |-> 20,  label |-> "Load 1 (2 Nm)"]
          [] i = 1 -> [load |-> 50,  label |-> "Load 2 (5 Nm)"]
          [] i = 2 -> [load |-> 80,  label |-> "Load 3 (8 Nm)"]
          [] i = 3 -> [load |-> 110, label |-> "Load 4 (11 Nm)"]
          [] i = 4 -> [load |-> 150, label |-> "Load 5 (15 Nm)"]]

\* the label of the marker dataset
CurrentPosition == [text |-> "Current Position"]

\* a truthy field: set, and true
Truthy(obj, f) == f \in DOMAIN obj /\ obj[f]

\* the index of the first dataset labelled 'Current Position', 0 if none
MarkerIndex(datasets) ==
    IF \E i \in 1..Len(datasets) : datasets[i].label = CurrentPosition
    THEN CHOOSE i \in 1..Len(datasets) :
            /\ datasets[i].label = CurrentPosition
            /\ \A j \in 1..(i - 1) : datasets[j].label # CurrentPosition
    ELSE 0

\* addPVMarker / addPThetaMarker on one chart: nothing without the chart
addMarker(chart, point) ==
    IF ~chart.exists THEN chart
    ELSE LET i == MarkerIndex(chart.datasets)
         IN  IF i = 0
             THEN [chart EXCEPT !.datasets =
                     Append(@, [label |-> CurrentPosition, data |-> <<point>>])]
             ELSE [chart EXCEPT !.datasets[i].data = <<point>>]

\* the datasets that are not the marker
RECURSIVE WithoutMarker(_)
WithoutMarker(datasets) ==
    IF datasets = <<>> THEN <<>>
    ELSE IF Head(datasets).label = CurrentPosition THEN WithoutMarker(Tail(datasets))
    ELSE <<Head(datasets)>> \o WithoutMarker(Tail(datasets))

\* removeMarkers()
removeMarkers(g) ==
    [pvChart     |-> IF g.pvChart.exists
                     THEN [g.pvChart EXCEPT !.datasets = WithoutMarker(@)]
                     ELSE g.pvChart,
     pthetaChart |-> IF g.pthetaChart.exists
                     THEN [g.pthetaChart EXCEPT !.datasets = WithoutMarker(@)]
                     ELSE g.pthetaChart]

\* updatePVChart(datasets) / updatePThetaChart(datasets) on one chart: the
\* datasets of the chart are replaced
updateChart(chart, datasets) ==
    IF ~chart.exists THEN chart ELSE [chart EXCEPT !.datasets = datasets]

\* UIControls.updateCurrentState(angle), the listener of engineAngleUpdate:
\* both charts get the marker of the angle. The marker is kept as the angle
\* and the engine load it was computed for; its point on the P-V chart is
\* (getVolume(angle), getActualPressure(angle)) and on the P-theta chart
\* (angle, getActualPressure(angle)).
updateCurrentState(g, e, angle) ==
    LET marker == [angle |-> angle, load |-> e.load]
    IN  [pvChart     |-> addMarker(g.pvChart, marker),
         pthetaChart |-> addMarker(g.pthetaChart, marker)]

\* The methods below return the animation as the call leaves it, whether
\* the call raised a TypeError (a property read on undefined or null), and
\* whether it drew: a drawing ends by dispatching engineAngleUpdate with the
\* current angle.

\* EngineAnimation.draw()
draw(a) ==
    IF "ctx" \notin DOMAIN a THEN [raised |-> TRUE, a |-> a, drew |-> FALSE]
    ELSE [raised |-> FALSE, a |-> [a EXCEPT !.canvasShows = a.currentAngle],
          drew |-> TRUE]

\* EngineAnimation.updateEngine(engine)
updateEngine(a, e) ==
    LET a1 == ObjectAssign(a, [engine |-> TRUE])
    IN  IF ~a1.canvas THEN [raised |-> TRUE, a |-> a1, drew |-> FALSE]
        ELSE IF ~Truthy(a1, "isRunning") THEN draw(ObjectAssign(a1, Dimensions(e)))
        ELSE [raised |-> FALSE, a |-> ObjectAssign(a1, Dimensions(e)), drew |-> FALSE]

\* a mutation of setAngle: the angle is stored as it is given
setAngleRaw(a, angle) == draw(ObjectAssign(a, [currentAngle |-> angle]))

\* EngineAnimation.setAngle(angle)
setAngle(a, angle) == draw(ObjectAssign(a, [currentAngle |-> Normalize(angle)]))

\* requestAnimationFrame(...) after a drawing that did not raise
RequestFrame(d) ==
    IF d.raised THEN d
    ELSE [d EXCEPT !.a = [d.a EXCEPT !.animationId = 1, !.frames = @ + 1]]

\* (this.currentAngle + degreesPerSec * dt / 1000) % 720, in ticks: NaN when
\* a field it reads is undefined
Advanced(a, e) ==
    IF {"currentAngle", "animationSpeed", "lastFrameTime"} \subseteq DOMAIN a
    THEN JsRem(a.currentAngle
                 + Quot(Quot(e.rpm * 6 * (a.now - a.lastFrameTime) * TicksPerDeg, 1000)
                          * a.animationSpeed, 10),
               Deg(CycleDeg))
    ELSE NaN

\* EngineAnimation.animate()
animate(a, e) ==
    IF ~Truthy(a, "isRunning") THEN [raised |-> FALSE, a |-> a, drew |-> FALSE]
    ELSE IF "engine" \notin DOMAIN a
    THEN [raised |-> TRUE, a |-> ObjectAssign(a, [lastFrameTime |-> a.now]),
          drew |-> FALSE]
    ELSE RequestFrame(draw(ObjectAssign(a,
             [lastFrameTime |-> a.now, currentAngle |-> Advanced(a, e)])))

\* a mutation of start: without the return when the animation is running
startAgain(a, e) ==
    animate(ObjectAssign(a, [isRunning |-> TRUE, lastFrameTime |-> a.now]), e)

\* EngineAnimation.start()
start(a, e) ==
    IF Truthy(a, "isRunning") THEN [raised |-> FALSE, a |-> a, drew |-> FALSE]
    ELSE animate(ObjectAssign(a, [isRunning |-> TRUE, lastFrameTime |-> a.now]), e)

\* EngineAnimation.setSpeed(speed), speed in 0.1:
\* Math.max(0.1, Math.min(5, speed))
setSpeed(a, speed) ==
    ObjectAssign(a, [animationSpeed |->
                        IF speed > 50 THEN 50 ELSE IF speed < 1 THEN 1 ELSE speed])

\* a mutation of stop: the requested frame is not cancelled
stopUncancelled(a) == ObjectAssign(a, [isRunning |-> FALSE])

\* EngineAnimation.stop(): the requested frame, if any, is cancelled
stop(a) ==
    IF "animationId" \in DOMAIN a /\ a.animationId # 0
    THEN [a EXCEPT !.isRunning = FALSE, !.animationId = 0,
                   !.frames = IF @ > 0 THEN @ - 1 ELSE 0]
    ELSE ObjectAssign(a, [isRunning |-> FALSE])

\* EngineAnimation.toggle(); it returns this.isRunning
toggle(a, e) ==
    IF Truthy(a, "isRunning")
    THEN [raised |-> FALSE, a |-> stop(a), drew |-> FALSE]
    ELSE start(a, e)

\* the charts after a call: the listener of engineAngleUpdate, if
\* UIControls has registered it, runs at the end of a drawing
Dispatch(g, u, e, r) ==
    IF r.drew /\ u.listening THEN updateCurrentState(g, e, r.a.currentAngle) ELSE g

\* the page with every canvas found and the application not yet started
PageLoaded ==
    /\ animation = NewEngineAnimation(TRUE, engine)
    /\ graphGenerator = NewGraphGenerator(TRUE, TRUE)
    /\ ui = NoUIControls

(***************************************************************************)
(* The state machine.                                                      *)
(*   engine  the EnginePhysics object: its configuration and derived fields*)
(*   theta   the crank angle (ticks) the caller passes to the queries      *)
(*   call    the last method called: its name, its argument, and whether   *)
(*           it repeats the call before it (same method, same argument)    *)
(*   ret     what that call returned                                       *)
(*   gen     the position of a running generateCycleData loop: its        *)
(*           arguments, its loop variable theta, the array data it has     *)
(*           built so far, and the method that called it                   *)
(*   animation, graphGenerator, ui   the EngineAnimation, GraphGenerator   *)
(*           and UIControls objects of the page                            *)
(***************************************************************************)
\* the largest number of points of a sampling loop the model follows
MaxPoints == 721

\* the crank angles of the queries of Spec, in ticks
SampleThetas == {0, Deg(90), Deg(350), Deg(720) + 1, -Deg(30)}

\* the crank angles of the queries of SpecQuery: up to ThetaSpan cycles either
\* side of the cycle [0, 720)
ThetaSpan == 1

AllThetas == (-ThetaSpan * Deg(CycleDeg) - 3) .. ((ThetaSpan + 1) * Deg(CycleDeg) + 3)

\* arguments of new EnginePhysics(params)
CtorInputs ==
    { <<>>,
      [bore |-> 80, stroke |-> 110, conRodLength |-> 220, compressionRatio |-> 8,
       rpm |-> 1857, load |-> 111, maxLoad |-> 200, ambientPressure |-> 1013,
       ambientTemperature |-> 298],
      [load |-> 0],
      [load |-> 50, maxLoad |-> 250],
      [bore |-> 70, rpm |-> 3000],
      [ignitionAdvance |-> 20, combustionDuration |-> 40] }

\* arguments of updateParams(params): the single-field updates of the
\* sliders and inputs, the temporary loads of updateGraphs, the reset of
\* resetToDefaults, and direct calls naming other fields
UpdateInputs ==
    { [bore |-> 70], [stroke |-> 100], [conRodLength |-> 200],
      [compressionRatio |-> 10], [load |-> 20], [load |-> 0],
      [ambientPressure |-> 1000],
      [ignitionAdvance |-> 30],
      [R_mm |-> 10],
      [bore |-> 80, stroke |-> 110, conRodLength |-> 220, compressionRatio |-> 8,
       rpm |-> 1857, load |-> 111, ambientPressure |-> 1013,
       ambientTemperature |-> 298] }

Undefined == "undefined"

GenIdle == [pc |-> "idle"]

\* new EnginePhysics(params)
Init ==
    /\ \E params \in CtorInputs :
          /\ engine = Constructor(params)
          /\ call = [op |-> "constructor", arg |-> params, repeat |-> FALSE]
    /\ theta \in SampleThetas
    /\ ret = Undefined
    /\ gen = GenIdle
    /\ PageLoaded

\* engine.updateParams(params)
UpdateParams ==
    /\ gen.pc = "idle"
    /\ \E params \in UpdateInputs :
          /\ engine' = updateParams(engine, params)
          /\ call' = [op |-> "updateParams", arg |-> params,
                      repeat |-> call.op = "updateParams" /\ call.arg = params]
    /\ ret' = Undefined
    /\ UNCHANGED <<theta, gen, page>>

\* a query of the crank angle: it reads the engine and returns val
Query(op, val) ==
    /\ gen.pc = "idle"
    /\ call' = [op |-> op, arg |-> theta, repeat |-> FALSE]
    /\ ret' = val
    /\ UNCHANGED <<engine, theta, gen, page>>

GetVolume == Query("getVolume", getVolume(engine, theta))

GetPhase == Query("getPhase", getPhase(theta))

GetValveStates == Query("getValveStates", getValveStates(theta))

\* a mutation of IsSparkFiring: the spark start is stored on the object
\* (this.ignitionAdvance = 360 - this.ignitionAdvance) instead of in a local
IsSparkFiringStores ==
    /\ gen.pc = "idle"
    /\ call' = [op |-> "isSparkFiring", arg |-> theta, repeat |-> FALSE]
    /\ ret' = isSparkFiring(engine, theta)
    /\ engine' = [engine EXCEPT !.ignitionAdvance = 360 - @]
    /\ UNCHANGED <<theta, gen, page>>

IsSparkFiring == Query("isSparkFiring", isSparkFiring(engine, theta))

GetPistonPosition == Query("getPistonPosition", getPistonPosition(engine, theta))

GetConRodAngle == Query("getConRodAngle", getConRodAngle(engine, theta))

GetTheoreticalPressure ==
    Query("getTheoreticalPressure", getTheoreticalPressure(engine, theta))

GetActualPressure == Query("getActualPressure", getActualPressure(engine, theta))

Next ==
    \/ UpdateParams
    \/ GetVolume
    \/ GetTheoreticalPressure
    \/ GetActualPressure
    \/ GetPhase
    \/ GetValveStates
    \/ IsSparkFiring
    \/ GetPistonPosition
    \/ GetConRodAngle

Spec == Init /\ [][Next]_vars

(***************************************************************************)
(* The angle queries over every crank angle of AllThetas, at the default   *)
(* configuration and at other ignition advances.                           *)
(***************************************************************************)
IgnitionInputs ==
    { [ignitionAdvance |-> 0], [ignitionAdvance |-> 15], [ignitionAdvance |-> 30] }

InitQuery ==
    /\ engine = Constructor(<<>>)
    /\ call = [op |-> "constructor", arg |-> <<>>, repeat |-> FALSE]
    /\ theta \in AllThetas
    /\ ret = Undefined
    /\ gen = GenIdle
    /\ PageLoaded

\* engine.updateParams({ignitionAdvance: a})
SetIgnitionAdvance ==
    /\ gen.pc = "idle"
    /\ \E params \in IgnitionInputs :
          /\ engine' = updateParams(engine, params)
          /\ call' = [op |-> "updateParams", arg |-> params,
                      repeat |-> call.op = "updateParams" /\ call.arg = params]
    /\ ret' = Undefined
    /\ UNCHANGED <<theta, gen, page>>

NextQuery ==
    \/ SetIgnitionAdvance
    \/ GetPhase
    \/ GetValveStates
    \/ IsSparkFiring

SpecQuery == InitQuery /\ [][NextQuery]_vars

(***************************************************************************)
(* The ideal cycle: getTheoreticalPressure at the stroke boundaries and     *)
(* half a degree either side of them, over configurations that differ in    *)
(* geometry, load, speed and ambient pressure.                              *)
(***************************************************************************)
\* the multiples of 90 degrees in AllThetas and their neighbours one tick away
OttoThetas ==
    { t \in AllThetas : t % Deg(90) \in {0, 1, Deg(90) - 1} }

\* arguments of updateParams(params); conRodLength 50 is shorter than the
\* crank radius
OttoInputs ==
    { [load |-> 0], [load |-> 200], [rpm |-> 3000], [compressionRatio |-> 10],
      [bore |-> 70, stroke |-> 100], [conRodLength |-> 50],
      [ambientPressure |-> 1000] }

InitOtto ==
    /\ engine = Constructor(<<>>)
    /\ call = [op |-> "constructor", arg |-> <<>>, repeat |-> FALSE]
    /\ theta \in OttoThetas
    /\ ret = Undefined
    /\ gen = GenIdle
    /\ PageLoaded

\* engine.updateParams(params)
SetOtto ==
    /\ gen.pc = "idle"
    /\ \E params \in OttoInputs :
          /\ engine' = updateParams(engine, params)
          /\ call' = [op |-> "updateParams", arg |-> params,
                      repeat |-> call.op = "updateParams" /\ call.arg = params]
    /\ ret' = Undefined
    /\ UNCHANGED <<theta, gen, page>>

NextOtto ==
    \/ SetOtto
    \/ GetTheoreticalPressure

SpecOtto == InitOtto /\ [][NextOtto]_vars

(***************************************************************************)
(* The cylinder volume over every crank angle of AllThetas, for geometries  *)
(* set through updateParams.                                                *)
(***************************************************************************)
\* arguments of updateParams(params): with the stroke 110 the rod 56 is just
\* longer than the crank radius 55 and the rod 50 is shorter
VolumeInputs ==
    { [bore |-> 70, stroke |-> 100], [conRodLength |-> 56],
      [conRodLength |-> 50], [compressionRatio |-> 10] }

InitVolume ==
    /\ engine = Constructor(<<>>)
    /\ call = [op |-> "constructor", arg |-> <<>>, repeat |-> FALSE]
    /\ theta \in AllThetas
    /\ ret = Undefined
    /\ gen = GenIdle
    /\ PageLoaded

\* engine.updateParams(params)
SetGeometry ==
    /\ gen.pc = "idle"
    /\ \E params \in VolumeInputs :
          /\ engine' = updateParams(engine, params)
          /\ call' = [op |-> "updateParams", arg |-> params,
                      repeat |-> call.op = "updateParams" /\ call.arg = params]
    /\ ret' = Undefined
    /\ UNCHANGED <<theta, gen, page>>

NextVolume ==
    \/ SetGeometry
    \/ GetVolume

SpecVolume == InitVolume /\ [][NextVolume]_vars

(***************************************************************************)
(* Sampling: generateCycleData as the loop it is, one iteration a step, and *)
(* getPerformanceMetrics, which calls it.  JavaScript runs one handler at a *)
(* time, so no other method runs while the loop does.                      *)
(***************************************************************************)
\* the angular steps passed as resolution, in ticks
Resolutions ==
    { Deg(1), Deg(2), Deg(3) \div 2, Deg(7), Deg(500), 0, -Deg(2) }

\* arguments of generateCycleData(cycleType, resolution): an absent argument
\* takes its default
GenArgs ==
    { [cycleType |-> c, resolution |-> r] :
          c \in {"theoretical", "actual"}, r \in Resolutions }
      \cup { <<>>, [cycleType |-> "theoretical"] }

ArgCycleType(a) == IF "cycleType" \in DOMAIN a THEN a.cycleType ELSE "actual"

ArgResolution(a) == IF "resolution" \in DOMAIN a THEN a.resolution ELSE Deg(2)

\* a mutation of LoopCondition: theta < 720, the last point left out
LoopConditionExclusive(g) == g.theta < Deg(CycleDeg)

\* the loop test  theta <= 720
LoopCondition(g) == g.theta <= Deg(CycleDeg)

CycleCtorInputs == { <<>>, [load |-> 50, maxLoad |-> 250] }

LoadInputs == { [load |-> 20], [load |-> 111] }

InitCycle ==
    /\ \E params \in CycleCtorInputs :
          /\ engine = Constructor(params)
          /\ call = [op |-> "constructor", arg |-> params, repeat |-> FALSE]
    /\ theta = Deg(372)
    /\ ret = Undefined
    /\ gen = GenIdle
    /\ PageLoaded

\* engine.updateParams({load: l})
SetLoad ==
    /\ gen.pc = "idle"
    /\ \E params \in LoadInputs :
          /\ engine' = updateParams(engine, params)
          /\ call' = [op |-> "updateParams", arg |-> params,
                      repeat |-> call.op = "updateParams" /\ call.arg = params]
    /\ ret' = Undefined
    /\ UNCHANGED <<theta, gen, page>>

\* engine.generateCycleData(cycleType, resolution): const data = []; theta = 0
GenerateCycleData ==
    /\ gen.pc = "idle"
    /\ \E a \in GenArgs :
          /\ gen' = [pc |-> "loop", caller |-> "generateCycleData",
                     cycleType |-> ArgCycleType(a), resolution |-> ArgResolution(a),
                     theta |-> 0, data |-> <<>>]
          /\ call' = [op |-> "generateCycleData", arg |-> a, repeat |-> FALSE]
    /\ ret' = Undefined
    /\ UNCHANGED <<engine, theta, page>>

\* engine.getPerformanceMetrics(): const data = this.generateCycleData('actual', 1)
GetPerformanceMetrics ==
    /\ gen.pc = "idle"
    /\ gen' = [pc |-> "loop", caller |-> "getPerformanceMetrics",
               cycleType |-> "actual", resolution |-> Deg(1),
               theta |-> 0, data |-> <<>>]
    /\ call' = [op |-> "getPerformanceMetrics", arg |-> <<>>, repeat |-> FALSE]
    /\ ret' = Undefined
    /\ UNCHANGED <<engine, theta, page>>

\* a mutation of GenLoop: the point records the index of the sample
\* (theta: data.length) instead of its angle
GenLoopIndexed ==
    /\ gen.pc = "loop"
    /\ LoopCondition(gen)
    /\ Len(gen.data) < MaxPoints
    /\ gen' = [gen EXCEPT
                 !.data = Append(@, [CyclePoint(engine, gen.cycleType, gen.theta)
                                       EXCEPT !.theta = Len(gen.data)]),
                 !.theta = @ + gen.resolution]
    /\ UNCHANGED <<engine, theta, call, ret, page>>

\* one iteration: data.push({...}); theta += resolution
GenLoop ==
    /\ gen.pc = "loop"
    /\ LoopCondition(gen)
    /\ Len(gen.data) < MaxPoints
    /\ gen' = [gen EXCEPT
                 !.data = Append(@, CyclePoint(engine, gen.cycleType, gen.theta)),
                 !.theta = @ + gen.resolution]
    /\ UNCHANGED <<engine, theta, call, ret, page>>

\* the loop test fails: generateCycleData returns data, and
\* getPerformanceMetrics goes on to return its metrics
GenReturn ==
    /\ gen.pc = "loop"
    /\ ~LoopCondition(gen)
    /\ ret' = IF gen.caller = "generateCycleData" THEN gen.data
              ELSE PerformanceMetrics(engine, gen.data)
    /\ gen' = GenIdle
    /\ UNCHANGED <<engine, theta, call, page>>

NextCycle ==
    \/ SetLoad
    \/ GenerateCycleData
    \/ GetPerformanceMetrics
    \/ GenLoop
    \/ GenReturn
    \/ GetVolume
    \/ GetTheoreticalPressure
    \/ GetActualPressure
    \/ GetPhase
    \/ GetValveStates
    \/ IsSparkFiring
    \/ GetPistonPosition
    \/ GetConRodAngle

SpecCycle == InitCycle /\ [][NextCycle]_vars

(***************************************************************************)
(* Geometry the slider-crank formula has no value for: a connecting rod    *)
(* no longer than the crank radius.  The constructor and updateParams      *)
(* store whatever they are given; the queries then run on it.              *)
(***************************************************************************)
\* arguments of new EnginePhysics(params), with short rods among them
RodCtorInputs == { <<>>, [conRodLength |-> 50], [stroke |-> 100, conRodLength |-> 240] }

\* arguments of updateParams(params): rods shorter than, equal to and longer
\* than the crank radius
RodInputs ==
    { [conRodLength |-> 50], [conRodLength |-> 55], [conRodLength |-> 220],
      [stroke |-> 120], [stroke |-> 110] }

\* the crank angles of the queries of SpecRod, in ticks
RodThetas == {0, Deg(90), Deg(270), Deg(372), Deg(450), Deg(550)}

InitRod ==
    /\ \E params \in RodCtorInputs :
          /\ engine = Constructor(params)
          /\ call = [op |-> "constructor", arg |-> params, repeat |-> FALSE]
    /\ theta \in RodThetas
    /\ ret = Undefined
    /\ gen = GenIdle
    /\ PageLoaded

\* engine.updateParams({conRodLength: l}) or ({stroke: s})
SetRod ==
    /\ gen.pc = "idle"
    /\ \E params \in RodInputs :
          /\ engine' = updateParams(engine, params)
          /\ call' = [op |-> "updateParams", arg |-> params,
                      repeat |-> call.op = "updateParams" /\ call.arg = params]
    /\ ret' = Undefined
    /\ UNCHANGED <<theta, gen, page>>

\* getActualPressure(theta) of the Wiebe variant of the class
GetActualPressureWiebe ==
    Query("getActualPressureWiebe", getActualPressureWiebe(engine, theta))

NextRod ==
    \/ SetRod
    \/ GetVolume
    \/ GetPistonPosition
    \/ GetActualPressure
    \/ GetActualPressureWiebe

SpecRod == InitRod /\ [][NextRod]_vars

(***************************************************************************)
(* Configurations outside the data model: a bore or stroke that is not     *)
(* positive, a compression ratio that is not above 1.  The constructor     *)
(* replaces a 0 by the default (params.x || default) and stores any other  *)
(* number; updateParams stores any number.                                 *)
(***************************************************************************)
ConfigCtorInputs == { <<>>, [compressionRatio |-> 1], [bore |-> 0], [stroke |-> -110] }

ConfigInputs ==
    { [bore |-> 0], [bore |-> 80], [stroke |-> 0], [stroke |-> -110],
      [stroke |-> 110], [compressionRatio |-> 1], [compressionRatio |-> 0],
      [compressionRatio |-> 8] }

\* the crank angles of the queries of SpecConfig, in ticks
ConfigThetas == {0, Deg(90), Deg(180)}

InitConfig ==
    /\ \E params \in ConfigCtorInputs :
          /\ engine = Constructor(params)
          /\ call = [op |-> "constructor", arg |-> params, repeat |-> FALSE]
    /\ theta \in ConfigThetas
    /\ ret = Undefined
    /\ gen = GenIdle
    /\ PageLoaded

\* engine.updateParams({bore: b}), ({stroke: s}) or ({compressionRatio: c})
SetConfig ==
    /\ gen.pc = "idle"
    /\ \E params \in ConfigInputs :
          /\ engine' = updateParams(engine, params)
          /\ call' = [op |-> "updateParams", arg |-> params,
                      repeat |-> call.op = "updateParams" /\ call.arg = params]
    /\ ret' = Undefined
    /\ UNCHANGED <<theta, gen, page>>

NextConfig ==
    \/ SetConfig
    \/ GetVolume
    \/ GetPistonPosition

SpecConfig == InitConfig /\ [][NextConfig]_vars

(***************************************************************************)
(* The page: the EngineAnimation, GraphGenerator and UIControls objects    *)
(* around one engine, with or without their canvases.  Each action is one  *)
(* call from the page or from a client of the classes; call.raised tells   *)
(* whether the call ended in a TypeError.                                  *)
(***************************************************************************)
\* the largest number of animation frames the model lets fire
MaxFrames == 2

\* the time between two animation frames, in milliseconds
FrameMs == 16

\* arguments of setAngle(angle), in ticks: inside the cycle, negative, a
\* whole cycle, and more than two cycles with a fraction of a degree
AngleInputs == { Deg(90), -Deg(30), Deg(CycleDeg), Deg(1500) + 1 }

\* the array generateCycleData returns for one curve, kept as what it was
\* sampled from: the load of the engine at the time and the pressure model
CurveData(e, cycleType) == <<[load |-> e.load, cycleType |-> cycleType]>>

\* a mutation of SelectedDatasets: the original load is not restored after
\* a curve is sampled
RECURSIVE SelectedDatasetsKept(_, _, _, _)
SelectedDatasetsKept(e, cycleType, sel, i) ==
    IF i > Len(sel) THEN [e |-> e, datasets |-> <<>>]
    ELSE LET loadConfig == loadConfigs[sel[i]]
             e1 == updateParams(e, [load |-> loadConfig.load])
             ds == [label |-> [text |-> loadConfig.label],
                    data |-> CurveData(e1, cycleType), colorIndex |-> sel[i]]
             rest == SelectedDatasetsKept(e1, cycleType, sel, i + 1)
         IN  [e |-> rest.e, datasets |-> <<ds>> \o rest.datasets]

\* the datasets of updateGraphs for the selected loads sel, starting at
\* index i: the load is set, the cycle sampled, the load restored
RECURSIVE SelectedDatasets(_, _, _, _)
SelectedDatasets(e, cycleType, sel, i) ==
    IF i > Len(sel) THEN [e |-> e, datasets |-> <<>>]
    ELSE LET loadConfig == loadConfigs[sel[i]]
             originalLoad == e.load
             e1 == updateParams(e, [load |-> loadConfig.load])
             ds == [label |-> [text |-> loadConfig.label],
                    data |-> CurveData(e1, cycleType), colorIndex |-> sel[i]]
             e2 == updateParams(e1, [load |-> originalLoad])
             rest == SelectedDatasets(e2, cycleType, sel, i + 1)
         IN  [e |-> rest.e, datasets |-> <<ds>> \o rest.datasets]

\* UIControls.updateGraphs(): g is the charts before the drawing of
\* updateEngine dispatches its event
updateGraphs(u, e, g, a) ==
    LET sampled ==
            IF Len(u.selectedLoads) = 0
            THEN [e |-> e,
                  datasets |->
                    <<[label |-> [text |-> "Nm", load |-> e.load,
                                  cycleType |-> u.cycleType],
                       data |-> CurveData(e, u.cycleType), colorIndex |-> 0]>>]
            ELSE SelectedDatasets(e, u.cycleType, u.selectedLoads, 1)
    IN  ObjectAssign(updateEngine(a, sampled.e),
            [e |-> sampled.e,
             g |-> [pvChart     |-> updateChart(g.pvChart, sampled.datasets),
                    pthetaChart |-> updateChart(g.pthetaChart, sampled.datasets)]])

\* the application before its DOMContentLoaded handler calls
\* animation.draw(): the engine, the graph generator with its two charts
\* and the animation are constructed, each canvas found or not
InitPage ==
    /\ engine = Constructor(<<>>)
    /\ call = [op |-> "constructor", arg |-> <<>>, repeat |-> FALSE]
    /\ theta = 0
    /\ ret = Undefined
    /\ gen = GenIdle
    /\ \E found \in BOOLEAN : animation = NewEngineAnimation(found, engine)
    /\ \E pvFound, pthetaFound \in BOOLEAN :
          graphGenerator = NewGraphGenerator(pvFound, pthetaFound)
    /\ ui = NoUIControls

\* a call op(arg) of the animation that leaves it as r.a
PageCall(op, arg, r) ==
    /\ call' = [op |-> op, arg |-> arg, repeat |-> FALSE, raised |-> r.raised]
    /\ animation' = r.a
    /\ graphGenerator' = Dispatch(graphGenerator, ui, engine, r)
    /\ UNCHANGED <<engine, theta, gen, ui>>

Draw == ret' = Undefined /\ PageCall("draw", <<>>, draw(animation))

UpdateEngine ==
    ret' = Undefined /\ PageCall("updateEngine", <<>>, updateEngine(animation, engine))

SetAngle ==
    /\ ret' = Undefined
    /\ \E angle \in AngleInputs : PageCall("setAngle", angle, setAngle(animation, angle))

Start == ret' = Undefined /\ PageCall("start", <<>>, start(animation, engine))

Stop ==
    /\ ret' = Undefined
    /\ PageCall("stop", <<>>, [raised |-> FALSE, a |-> stop(animation), drew |-> FALSE])

Toggle ==
    /\ PageCall("toggle", <<>>, toggle(animation, engine))
    /\ ret' = IF call'.raised THEN Undefined ELSE animation'.isRunning

\* a requested animation frame fires, FrameMs after the last call: the
\* callback calls animate()
AnimationFrame ==
    /\ animation.frames > 0
    /\ animation.fired < MaxFrames
    /\ ret' = Undefined
    /\ PageCall("animate", <<>>,
                animate([animation EXCEPT !.frames = @ - 1, !.fired = @ + 1,
                                          !.now = @ + FrameMs],
                        engine))

\* GraphGenerator.removeMarkers()
RemoveMarkers ==
    /\ call' = [op |-> "removeMarkers", arg |-> <<>>, repeat |-> FALSE, raised |-> FALSE]
    /\ graphGenerator' = removeMarkers(graphGenerator)
    /\ ret' = Undefined
    /\ UNCHANGED <<engine, theta, gen, animation, ui>>

\* exportChartImage(chartType): the data URL of the chart, null without it
ExportChartImage ==
    \E chartType \in {"pv", "ptheta"} :
        LET chart == IF chartType = "pv" THEN graphGenerator.pvChart
                     ELSE graphGenerator.pthetaChart
        IN  /\ call' = [op |-> "exportChartImage", arg |-> chartType,
                        repeat |-> FALSE, raised |-> FALSE]
            /\ ret' = IF chart.exists THEN "data:image/png" ELSE "null"
            /\ UNCHANGED <<engine, theta, gen, page>>

\* the fields the UIControls constructor sets before it calls initControls
NewUIControls == [listening |-> TRUE, selectedLoads |-> <<3>>, cycleType |-> "actual"]

\* a call op() that leaves the UIControls object as u and the engine, the
\* charts and the animation as r.e, r.g and r.a
UICall(op, u, r) ==
    /\ call' = [op |-> op, arg |-> <<>>, repeat |-> FALSE, raised |-> r.raised]
    /\ ui' = u
    /\ engine' = r.e
    /\ animation' = r.a
    /\ graphGenerator' = Dispatch(r.g, u, r.e, r)
    /\ ret' = Undefined
    /\ UNCHANGED <<theta, gen>>

\* new UIControls(engine, graphGenerator, animation): the fields are set,
\* initControls registers the handlers, updateGraphs runs
ConstructUIControls ==
    /\ ~ui.listening
    /\ UICall("UIControls", NewUIControls,
              updateGraphs(NewUIControls, engine, graphGenerator, animation))

\* UIControls.updateGraphs(), as the handlers of the controls call it
UpdateGraphs ==
    /\ ui.listening
    /\ UICall("updateGraphs", ui, updateGraphs(ui, engine, graphGenerator, animation))

\* the rest of the DOMContentLoaded handler: animation.draw(), with no
\* listener yet, then new UIControls(...); a TypeError ends the handler
\* where it is raised
DOMContentLoaded ==
    /\ call.op = "constructor"
    /\ IF draw(animation).raised
       THEN UICall("DOMContentLoaded", ui,
                   [raised |-> TRUE, e |-> engine, a |-> animation,
                    g |-> graphGenerator, drew |-> FALSE])
       ELSE UICall("DOMContentLoaded", NewUIControls,
                   updateGraphs(NewUIControls, engine, graphGenerator,
                                draw(animation).a))

NextPage ==
    \/ DOMContentLoaded
    \/ ConstructUIControls
    \/ UpdateGraphs
    \/ Draw
    \/ UpdateEngine
    \/ SetAngle
    \/ Start
    \/ Stop
    \/ Toggle
    \/ AnimationFrame
    \/ RemoveMarkers
    \/ ExportChartImage

SpecPage == InitPage /\ [][NextPage]_vars

(***************************************************************************)
(* The same cycle sampled at two resolutions, as a slider change does:     *)
(* updateGraphs samples every 2 degrees and updateMetrics, through         *)
(* getPerformanceMetrics, every degree, with no updateParams in between.   *)
(* Here both arrays are kept by the caller:                                *)
(*     const coarse = engine.generateCycleData(m, 2);                      *)
(*     const fine   = engine.generateCycleData(m, 1);                      *)
(***************************************************************************)
\* the values of cycleType: 'theoretical', and anything else is 'actual'
CycleTypes == {"theoretical", "actual"}

\* entry of the first call, generateCycleData(m, 2)
SampleCoarse ==
    /\ gen.pc = "idle"
    /\ \E m \in CycleTypes :
          /\ gen' = [pc |-> "loop", caller |-> "coarse", cycleType |-> m,
                     resolution |-> Deg(2), theta |-> 0, data |-> <<>>,
                     coarse |-> <<>>]
          /\ call' = [op |-> "generateCycleData",
                      arg |-> [cycleType |-> m, resolution |-> Deg(2)],
                      repeat |-> FALSE]
    /\ ret' = Undefined
    /\ UNCHANGED <<engine, theta, page>>

\* the first call returns its array and the second, generateCycleData(m, 1),
\* is entered
SampleFine ==
    /\ gen.pc = "loop"
    /\ gen.caller = "coarse"
    /\ ~LoopCondition(gen)
    /\ gen' = [gen EXCEPT !.caller = "fine", !.resolution = Deg(1),
                          !.theta = 0, !.data = <<>>, !.coarse = gen.data]
    /\ call' = [op |-> "generateCycleData",
                arg |-> [cycleType |-> gen.cycleType, resolution |-> Deg(1)],
                repeat |-> FALSE]
    /\ ret' = gen.data
    /\ UNCHANGED <<engine, theta, page>>

\* the second call returns: the caller holds both arrays
SampleReturn ==
    /\ gen.pc = "loop"
    /\ gen.caller = "fine"
    /\ ~LoopCondition(gen)
    /\ ret' = [coarse |-> gen.coarse, fine |-> gen.data]
    /\ gen' = GenIdle
    /\ UNCHANGED <<engine, theta, call, page>>

NextRound ==
    \/ SetLoad
    \/ SampleCoarse
    \/ GenLoop
    \/ SampleFine
    \/ SampleReturn

SpecRound == InitCycle /\ [][NextRound]_vars

(***************************************************************************)
(* The metrics of two configurations, the second reached from the first by *)
(* updateParams, both results kept by the caller:                          *)
(*     const first  = engine.getPerformanceMetrics();                      *)
(*     engine.updateParams(...);  ...                                      *)
(*     const second = engine.getPerformanceMetrics();                      *)
(***************************************************************************)
\* arguments of updateParams(params): between them they change every
\* configuration field the sliders and inputs set
MetricsInputs ==
    { [load |-> 50, maxLoad |-> 250, rpm |-> 3000],
      [bore |-> 70, conRodLength |-> 200, ambientPressure |-> 1000,
       ambientTemperature |-> 310],
      [stroke |-> 100],
      [compressionRatio |-> 10] }

\* what the caller keeps of a call of getPerformanceMetrics: the returned
\* metrics and the configuration they were computed for
Measured(e) ==
    [metrics |-> getPerformanceMetrics(e),
     config  |-> [f \in ParamFields |-> e[f]]]

\* the first call of getPerformanceMetrics
MeasureFirst ==
    /\ gen.pc = "idle"
    /\ call.op # "getPerformanceMetrics"
    /\ gen' = [pc |-> "held", first |-> Measured(engine)]
    /\ call' = [op |-> "getPerformanceMetrics", arg |-> <<>>, repeat |-> FALSE]
    /\ ret' = gen'.first.metrics
    /\ UNCHANGED <<engine, theta, page>>

\* engine.updateParams(params), between the two calls or before them
Reconfigure ==
    /\ \E params \in MetricsInputs :
          /\ engine' = updateParams(engine, params)
          /\ call' = [op |-> "updateParams", arg |-> params,
                      repeat |-> call.op = "updateParams" /\ call.arg = params]
    /\ ret' = Undefined
    /\ UNCHANGED <<theta, gen, page>>

\* the second call of getPerformanceMetrics: the caller holds both results
MeasureSecond ==
    /\ gen.pc = "held"
    /\ ret' = [first |-> gen.first, second |-> Measured(engine)]
    /\ call' = [op |-> "getPerformanceMetrics", arg |-> <<>>, repeat |-> TRUE]
    /\ gen' = GenIdle
    /\ UNCHANGED <<engine, theta, page>>

NextMetrics ==
    \/ MeasureFirst
    \/ Reconfigure
    \/ MeasureSecond

SpecMetrics == InitCycle /\ [][NextMetrics]_vars

(***************************************************************************)
(* The two files side by side: an engine of the six-phase file (engine)    *)
(* and one of the Wiebe file (gen.wiebe) are constructed from the same      *)
(* input and receive the same calls; ret holds the two results.             *)
(***************************************************************************)
VariantCtorInputs == { <<>>, [load |-> 50, maxLoad |-> 250] }

VariantInputs ==
    { [bore |-> 70, stroke |-> 100, rpm |-> 3000],
      [compressionRatio |-> 10, load |-> 150] }

VariantThetas == { Deg(350), Deg(372), -Deg(30) }

InitVariants ==
    /\ \E params \in VariantCtorInputs :
          /\ engine = Constructor(params)
          /\ gen = [pc |-> "idle", wiebe |-> Constructor(params)]
          /\ call = [op |-> "constructor", arg |-> params, repeat |-> FALSE]
    /\ theta \in VariantThetas
    /\ ret = Undefined
    /\ PageLoaded

\* updateParams(params) on both engines
UpdateBoth ==
    /\ \E params \in VariantInputs :
          /\ engine' = updateParams(engine, params)
          /\ gen' = [gen EXCEPT !.wiebe = updateParams(@, params)]
          /\ call' = [op |-> "updateParams", arg |-> params,
                      repeat |-> call.op = "updateParams" /\ call.arg = params]
    /\ ret' = Undefined
    /\ UNCHANGED <<theta, page>>

\* a call op(arg) on both engines, returning r1 and r2
CallBoth(op, arg, r1, r2) ==
    /\ call' = [op |-> op, arg |-> arg, repeat |-> FALSE]
    /\ ret' = [sixPhase |-> r1, wiebe |-> r2]
    /\ UNCHANGED <<engine, theta, gen, page>>

\* the angle queries whose text is the same in both files
SharedQueryBoth ==
    \/ CallBoth("getVolume", theta,
                getVolume(engine, theta), getVolume(gen.wiebe, theta))
    \/ CallBoth("getTheoreticalPressure", theta,
                getTheoreticalPressure(engine, theta),
                getTheoreticalPressure(gen.wiebe, theta))
    \/ CallBoth("getPhase", theta, getPhase(theta), getPhase(theta))
    \/ CallBoth("getValveStates", theta,
                getValveStates(theta), getValveStates(theta))
    \/ CallBoth("isSparkFiring", theta,
                isSparkFiring(engine, theta), isSparkFiring(gen.wiebe, theta))
    \/ CallBoth("getPistonPosition", theta,
                getPistonPosition(engine, theta), getPistonPosition(gen.wiebe, theta))
    \/ CallBoth("getConRodAngle", theta,
                getConRodAngle(engine, theta), getConRodAngle(gen.wiebe, theta))

\* getActualPressure(theta), each file its own
ActualPressureBoth ==
    CallBoth("getActualPressure", theta,
             getActualPressure(engine, theta),
             getActualPressureWiebe(gen.wiebe, theta))

\* the angular step of the samples compared, in degrees
SampleStep == 30

\* generateCycleData(cycleType, SampleStep) on both engines
SampleBoth ==
    \E m \in CycleTypes :
        CallBoth("generateCycleData",
                 [cycleType |-> m, resolution |-> Deg(SampleStep)],
                 generateCycleData(engine, m, Deg(SampleStep)),
                 generateCycleDataWiebe(gen.wiebe, m, Deg(SampleStep)))

\* a mutation of getPerformanceMetricsWiebe: the thermal efficiency is taken
\* from the sampled curve
getPerformanceMetricsWiebeIndicated(e) ==
    PerformanceMetricsIndicated(e, generateCycleDataWiebe(e, "actual", Deg(1)))

\* getPerformanceMetrics() of the Wiebe file
getPerformanceMetricsWiebe(e) ==
    PerformanceMetrics(e, generateCycleDataWiebe(e, "actual", Deg(1)))

\* getPerformanceMetrics() on both engines
MetricsBoth ==
    CallBoth("getPerformanceMetrics", <<>>,
             getPerformanceMetrics(engine), getPerformanceMetricsWiebe(gen.wiebe))

NextVariants ==
    \/ UpdateBoth
    \/ SharedQueryBoth
    \/ ActualPressureBoth
    \/ SampleBoth
    \/ MetricsBoth

SpecVariants == InitVariants /\ [][NextVariants]_vars

(***************************************************************************)
(* The end of the suction and the start of the compression of the          *)
(* six-phase model, for several speeds and ambient pressures.              *)
(***************************************************************************)
\* the crank angles around the bottom dead centre 180, in this cycle and the
\* cycles before and after it, and the middle of the suction
SuctionThetas ==
    { Deg(90), Deg(180) - 1, Deg(180), Deg(180) + 1,
      Deg(180) - Deg(CycleDeg), Deg(180) + Deg(CycleDeg) }

\* arguments of updateParams(params): the rpm slider and the ambient
\* pressure input
SuctionInputs ==
    { [rpm |-> 500], [rpm |-> 3000], [rpm |-> 4000], [rpm |-> 6000],
      [ambientPressure |-> 1000], [ambientPressure |-> 900],
      [compressionRatio |-> 10] }

InitSuction ==
    /\ engine = Constructor(<<>>)
    /\ call = [op |-> "constructor", arg |-> <<>>, repeat |-> FALSE]
    /\ theta \in SuctionThetas
    /\ ret = Undefined
    /\ gen = GenIdle
    /\ PageLoaded

\* engine.updateParams(params)
SetSuction ==
    /\ gen.pc = "idle"
    /\ \E params \in SuctionInputs :
          /\ engine' = updateParams(engine, params)
          /\ call' = [op |-> "updateParams", arg |-> params,
                      repeat |-> call.op = "updateParams" /\ call.arg = params]
    /\ ret' = Undefined
    /\ UNCHANGED <<theta, gen, page>>

NextSuction ==
    \/ SetSuction
    \/ GetActualPressure

SpecSuction == InitSuction /\ [][NextSuction]_vars

(***************************************************************************)
(* The metrics the page shows.  ret holds the metrics the last handler     *)
(* wrote into the metric elements.                                         *)
(***************************************************************************)
\* a mutation of updateMetrics: the metrics are computed from the cycle type
\* selected in the page
updateMetricsSelected(u, e) ==
    PerformanceMetrics(e, generateCycleData(e, u.cycleType, Deg(1)))

\* UIControls.updateMetrics(): the metrics written into the metric elements
updateMetrics(u, e) == getPerformanceMetrics(e)

\* values of the sliders as their handlers pass them to updateParams
SliderInputs ==
    { [rpm |-> 3000], [compressionRatio |-> 10], [bore |-> 70] }

\* arguments of window.app.engine.updateParams(params), called directly
DirectInputs == { [rpm |-> -1857], [rpm |-> 1857], [rpm |-> 600] }

\* the page when its DOMContentLoaded handler has returned, every canvas
\* found: the animation drawn, the UIControls constructed, the graphs
\* updated for the default selection
InitDisplay ==
    /\ engine = Constructor(<<>>)
    /\ call = [op |-> "DOMContentLoaded", arg |-> <<>>, repeat |-> FALSE,
               raised |-> FALSE]
    /\ theta = 0
    /\ ret = Undefined
    /\ gen = GenIdle
    /\ ui = NewUIControls
    /\ LET r == updateGraphs(NewUIControls, engine, NewGraphGenerator(TRUE, TRUE),
                             draw(NewEngineAnimation(TRUE, engine)).a)
       IN  /\ animation = r.a
           /\ graphGenerator = Dispatch(r.g, NewUIControls, r.e, r)

\* the end of a handler op(arg) that calls this.updateGraphs(): r is what
\* updateGraphs leaves, the metrics are those updateMetrics wrote
Shown(op, arg, u, r) ==
    /\ call' = [op |-> op, arg |-> arg, repeat |-> FALSE, raised |-> r.raised]
    /\ ui' = u
    /\ engine' = r.e
    /\ animation' = r.a
    /\ graphGenerator' = Dispatch(r.g, u, r.e, r)
    /\ ret' = updateMetrics(u, r.e)
    /\ UNCHANGED <<theta, gen>>

\* the handler of a slider: engine.updateParams({...}); this.updateGraphs()
SliderInput ==
    \E params \in SliderInputs :
        Shown("input", params, ui,
              updateGraphs(ui, updateParams(engine, params), graphGenerator, animation))

\* the handler of the cycle type radio buttons:
\* this.cycleType = e.target.value; this.updateGraphs()
CycleTypeChange ==
    \E m \in CycleTypes :
        Shown("change", m, [ui EXCEPT !.cycleType = m],
              updateGraphs([ui EXCEPT !.cycleType = m], engine, graphGenerator,
                           animation))

\* the handler of generateBtn: this.updateGraphs()
GenerateClick ==
    Shown("click", "generateBtn", ui,
          updateGraphs(ui, engine, graphGenerator, animation))

\* window.app.engine.updateParams(params): no handler of the page runs
DirectUpdate ==
    /\ \E params \in DirectInputs :
          /\ engine' = updateParams(engine, params)
          /\ call' = [op |-> "updateParams", arg |-> params, repeat |-> FALSE,
                      raised |-> FALSE]
    /\ ret' = Undefined
    /\ UNCHANGED <<theta, gen, page>>

NextDisplay ==
    \/ SliderInput
    \/ CycleTypeChange
    \/ GenerateClick
    \/ DirectUpdate

SpecDisplay == InitDisplay /\ [][NextDisplay]_vars

(***************************************************************************)
(* The load checkboxes and the load slider of the page.  ret holds what    *)
(* updateMetrics computed the metrics from: the configuration of the       *)
(* engine at the time of its call.                                         *)
(***************************************************************************)
\* the checkboxes load1 .. load5 that are checked, as sets of indices
Checked == SUBSET (0..4)

\* values of the load slider
LoadSliderInputs == { [load |-> 50], [load |-> 170] }

\* the loop of handleLoadCheckbox: the indices of the checked checkboxes, in
\* increasing order
handleLoadCheckbox(checked) == SelectSeq(<<0, 1, 2, 3, 4>>, LAMBDA i : i \in checked)

\* the configuration getPerformanceMetrics reads, which determines the
\* metrics of updateMetrics
MetricsSource(e) == [f \in ParamFields \cup ConstFields |-> e[f]]

\* the end of a handler op(arg) that calls this.updateGraphs(): r is what
\* updateGraphs leaves
Replotted(op, arg, u, r) ==
    /\ call' = [op |-> op, arg |-> arg, repeat |-> FALSE, raised |-> r.raised]
    /\ ui' = u
    /\ engine' = r.e
    /\ animation' = r.a
    /\ graphGenerator' = Dispatch(r.g, u, r.e, r)
    /\ ret' = MetricsSource(r.e)
    /\ UNCHANGED <<theta, gen>>

\* the handler of the load slider: engine.updateParams({load}); updateGraphs()
LoadInput ==
    \E params \in LoadSliderInputs :
        Replotted("input", params, ui,
                  updateGraphs(ui, updateParams(engine, params), graphGenerator,
                               animation))

\* handleLoadCheckbox(): selectedLoads collected from the checkboxes, then
\* updateGraphs()
HandleLoadCheckbox ==
    \E checked \in Checked :
        Replotted("change", checked,
                  [ui EXCEPT !.selectedLoads = handleLoadCheckbox(checked)],
                  updateGraphs([ui EXCEPT !.selectedLoads = handleLoadCheckbox(checked)],
                               engine, graphGenerator, animation))

NextLoads ==
    \/ LoadInput
    \/ HandleLoadCheckbox

SpecLoads == InitDisplay /\ [][NextLoads]_vars

(***************************************************************************)
(* The animation loop: start, stop, toggle, setAngle, setSpeed,            *)
(* updateEngine and the animation frames, in any order, while time passes. *)
(***************************************************************************)
\* the clock is followed up to MaxClock milliseconds
MaxClock == 30

\* the time that passes between two calls when it does, in milliseconds
IdleMs == 7

\* values of the rpm slider
RpmInputs == { [rpm |-> 1857], [rpm |-> 0], [rpm |-> 6000] }

\* arguments of setSpeed(speed), in 0.1
SpeedInputs == { 0, 1, 25, 80 }

\* the page with every canvas found, the engine at some speed and the
\* animation constructed: nothing drawn yet, no UIControls
InitAnimation ==
    /\ \E params \in RpmInputs : engine = updateParams(Constructor(<<>>), params)
    /\ call = [op |-> "constructor", arg |-> <<>>, repeat |-> FALSE, raised |-> FALSE]
    /\ theta = 0
    /\ ret = Undefined
    /\ gen = GenIdle
    /\ PageLoaded

SetSpeed ==
    /\ ret' = Undefined
    /\ \E speed \in SpeedInputs :
          PageCall("setSpeed", speed,
                   [raised |-> FALSE, a |-> setSpeed(animation, speed), drew |-> FALSE])

\* time passes and nothing of the page runs
Idle ==
    /\ animation.now < MaxClock
    /\ animation' = [animation EXCEPT !.now = @ + IdleMs]
    /\ call' = [op |-> "idle", arg |-> IdleMs, repeat |-> FALSE, raised |-> FALSE]
    /\ ret' = Undefined
    /\ UNCHANGED <<engine, theta, gen, graphGenerator, ui>>

NextAnimation ==
    \/ Start
    \/ Stop
    \/ Toggle
    \/ SetAngle
    \/ SetSpeed
    \/ UpdateEngine
    \/ AnimationFrame
    \/ Idle

SpecAnimation == InitAnimation /\ [][NextAnimation]_vars

(***************************************************************************)
(* The controls of the page: the sliders and inputs of the eight           *)
(* parameters, the load checkboxes, the reset button and the animation     *)
(* button.                                                                 *)
(***************************************************************************)
\* one value of each slider and input that differs from the default
ControlInputs ==
    { [bore |-> 70], [stroke |-> 90], [conRodLength |-> 200],
      [compressionRatio |-> 10], [rpm |-> 3000], [load |-> 50],
      [ambientTemperature |-> 310], [ambientPressure |-> 900] }

\* checked checkboxes: none, the default one, two others, all
CheckedInputs == { {}, {3}, {0, 4}, 0..4 }

\* the object resetToDefaults passes to engine.updateParams
ResetValues ==
    [bore |-> 80, stroke |-> 110, conRodLength |-> 220, compressionRatio |-> 8,
     rpm |-> 1857, load |-> 111, ambientPressure |-> 1013,
     ambientTemperature |-> 298]

\* a mutation of resetToDefaults: selectedLoads is left as it is
resetToDefaultsKeepsLoads(u, e, g, a) ==
    [u |-> u, r |-> updateGraphs(u, updateParams(e, ResetValues), g, a)]

\* UIControls.resetToDefaults(): the UIControls object as it leaves it, and
\* what its updateGraphs leaves
resetToDefaults(u, e, g, a) ==
    [u |-> [u EXCEPT !.selectedLoads = <<3>>],
     r |-> updateGraphs([u EXCEPT !.selectedLoads = <<3>>],
                        updateParams(e, ResetValues), g, a)]

\* UIControls.toggleAnimation(): animation.toggle(), whose drawing, if it
\* starts, dispatches engineAngleUpdate before it returns; then
\* removeMarkers() if the animation is not running
toggleAnimation(u, e, g, a) ==
    LET r == toggle(a, e)
    IN  [raised |-> r.raised, e |-> e, a |-> r.a, drew |-> FALSE,
         g |-> IF r.raised \/ Truthy(r.a, "isRunning")
               THEN Dispatch(g, u, e, r)
               ELSE removeMarkers(Dispatch(g, u, e, r))]

\* the handler of a slider or input: engine.updateParams({...});
\* updateGraphs()
ControlInput ==
    \E params \in ControlInputs :
        Replotted("input", params, ui,
                  updateGraphs(ui, updateParams(engine, params), graphGenerator,
                               animation))

\* the handler of a load checkbox
LoadCheckboxChange ==
    \E checked \in CheckedInputs :
        Replotted("change", checked,
                  [ui EXCEPT !.selectedLoads = handleLoadCheckbox(checked)],
                  updateGraphs([ui EXCEPT !.selectedLoads = handleLoadCheckbox(checked)],
                               engine, graphGenerator, animation))

\* the handler of resetBtn
ResetToDefaults ==
    LET reset == resetToDefaults(ui, engine, graphGenerator, animation)
    IN  Replotted("resetToDefaults", <<>>, reset.u, reset.r)

\* the handler of animationBtn
ToggleAnimation ==
    LET r == toggleAnimation(ui, engine, graphGenerator, animation)
    IN  /\ call' = [op |-> "toggleAnimation", arg |-> <<>>, repeat |-> FALSE,
                    raised |-> r.raised]
        /\ animation' = r.a
        /\ graphGenerator' = r.g
        /\ UNCHANGED <<engine, theta, gen, ui, ret>>

NextControls ==
    \/ ControlInput
    \/ LoadCheckboxChange
    \/ ResetToDefaults

SpecControls == InitDisplay /\ [][NextControls]_vars

\* the animation button among the load controls and the reset button, while
\* the animation frames fire
NextMarkers ==
    \/ ToggleAnimation
    \/ AnimationFrame
    \/ LoadInput
    \/ HandleLoadCheckbox
    \/ ResetToDefaults

SpecMarkers == InitDisplay /\ [][NextMarkers]_vars

(***************************************************************************)
(* The properties.                                                         *)
(***************************************************************************)
\* the derived geometry of e is the stated function of its bore, stroke,
\* conRodLength and compressionRatio
DerivedMatches(e) ==
    LET displacement == ((((PI * e.bore * e.bore) \div 4) \div 100) * (e.stroke * 10)) \div 100
        clearance == displacement \div (e.compressionRatio - 1)
    IN  /\ e.displacementVolume = displacement
        /\ e.displacementVolumeCc = displacement
        /\ e.clearanceVolume = clearance
        /\ e.clearanceVolumeCc = clearance
        /\ e.totalVolume = clearance + displacement
        /\ e.totalVolumeCc = clearance + displacement
        /\ e.crankRadius = (e.stroke * 10) \div 2
        /\ e.R_mm = (e.stroke * 10) \div 2
        /\ e.B_mm = e.bore
        /\ e.S_mm = e.stroke
        /\ e.L_mm = e.conRodLength

\* C1: in every state in which a query can run (after the constructor and
\* after every updateParams), the cached derived geometry is the stated
\* function of the current bore, stroke, conRodLength and compressionRatio
\* alone: displacement = pi*bore^2/4*stroke, clearance =
\* displacement/(compressionRatio-1), total = clearance+displacement,
\* R_mm = stroke/2.
C1_DerivedGeometryFresh == DerivedMatches(engine)

\* a query runs on a geometry that two updateParams calls have changed
C1_Witness ==
    /\ call.op = "getVolume"
    /\ engine.bore = 70
    /\ engine.stroke = 100
    /\ engine.displacementVolumeCc # Constructor(<<>>).displacementVolumeCc

\* C2: the constructor gives every supplied field (geometry, operating
\* point including load = 0, ambient state, ignitionAdvance and
\* combustionDuration) the supplied value and every omitted field its
\* default.
C2_ConstructorTakesInput ==
    call.op = "constructor" =>
        /\ \A f \in ParamFields :
              engine[f] = IF f \in DOMAIN call.arg THEN call.arg[f] ELSE Defaults[f]
        /\ \A f \in {"ignitionAdvance", "combustionDuration"} :
              engine[f] = IF f \in DOMAIN call.arg THEN call.arg[f] ELSE FixedValues[f]

\* C3: updateParams(p) is a partial merge: a configuration field p names
\* takes p's value, every other configuration field keeps its value, and the
\* derived geometry on return is that of the merged configuration.
C3_PartialMerge ==
    [][call'.op = "updateParams" =>
         /\ \A f \in ConfigFields :
               engine'[f] = IF f \in DOMAIN call'.arg THEN call'.arg[f] ELSE engine[f]
         /\ DerivedMatches(engine')]_vars

\* updateParams({stroke: 100}) has run on an engine whose bore an earlier
\* call had set to 70
C3_Witness ==
    /\ call.op = "updateParams"
    /\ call.arg = [stroke |-> 100]
    /\ engine.stroke = 100
    /\ engine.bore = 70

\* C4: updateParams is idempotent: a second updateParams(p) right after
\* updateParams(p) leaves every field of the engine, configuration and
\* derived geometry alike, as the first call left it (every query reads the
\* engine and its crank angle alone, so its results are the same too).
C4_UpdateIdempotent ==
    [][(call'.op = "updateParams" /\ call'.repeat) => engine' = engine]_vars

\* the same geometry update has been applied twice in a row
C4_Witness ==
    /\ call.op = "updateParams"
    /\ call.repeat
    /\ call.arg = [bore |-> 70]
    /\ engine.bore = 70

\* the physics queries of EnginePhysics
QueryOps ==
    {"getVolume", "getTheoreticalPressure", "getActualPressure", "getPhase",
     "getValveStates", "isSparkFiring", "getPistonPosition", "getConRodAngle",
     "generateCycleData", "getPerformanceMetrics"}

\* C5: every physics query leaves every configuration field and every
\* derived field unchanged: no step of a query (a call, an iteration of the
\* sampling loop, a return) changes the engine, so queries between two
\* updateParams calls all read the same engine.
C5_QueriesLeaveEngine ==
    [][call'.op \in QueryOps => engine' = engine]_vars

\* a sampled cycle has been returned on an engine whose load updateParams
\* had changed, after which further queries can run
C5_Witness ==
    /\ call.op = "generateCycleData"
    /\ gen.pc = "idle"
    /\ engine.load = 20
    /\ Len(ret) = 361

\* generateCycleData has returned: ret is the array it built
Sampled == call.op = "generateCycleData" /\ gen.pc = "idle"

\* every point holds the volume, the pressure of the selected model and the
\* phase of its theta
PointsHoldQueries ==
    \A i \in 1..Len(ret) :
        /\ ret[i].volume = getVolume(engine, ret[i].theta)
        /\ ret[i].pressure =
              IF ArgCycleType(call.arg) = "theoretical"
              THEN getTheoreticalPressure(engine, ret[i].theta)
              ELSE getActualPressure(engine, ret[i].theta)
        /\ ret[i].phase = getPhase(ret[i].theta)

\* the thetas start at 0 and go up by exactly step
SteppedFromZero(step) ==
    /\ Len(ret) >= 1
    /\ ret[1].theta = 0
    /\ \A i \in 1..(Len(ret) - 1) :
          /\ ret[i + 1].theta > ret[i].theta
          /\ ret[i + 1].theta - ret[i].theta = step

\* C9 as stated: generateCycleData(model, step) returns the points for theta
\* from 0 stepped by step, strictly increasing, the last being 720, each
\* with the volume, selected pressure and phase of its theta; 361 points for
\* the default step 2.
C9_SamplesEndAt720 ==
    Sampled =>
        /\ SteppedFromZero(ArgResolution(call.arg))
        /\ ret[Len(ret)].theta = Deg(CycleDeg)
        /\ PointsHoldQueries
        /\ ArgResolution(call.arg) = Deg(2) => Len(ret) = 361

\* C9 as amended: the thetas are 0, step, 2*step, ... up to the largest
\* multiple of step that is not above 720, which is 720 exactly when step
\* divides 720; the rest as stated.
C9_SamplesUpTo720 ==
    Sampled =>
        LET step == ArgResolution(call.arg)
            last == ret[Len(ret)].theta
        IN  /\ SteppedFromZero(step)
            /\ last <= Deg(CycleDeg)
            /\ last + step > Deg(CycleDeg)
            /\ (last = Deg(CycleDeg)) <=> (Deg(CycleDeg) % step = 0)
            /\ PointsHoldQueries
            /\ step = Deg(2) => Len(ret) = 361

\* the theoretical cycle has been sampled every 7 degrees: 103 points, the
\* last at 714
C9_Witness ==
    /\ Sampled
    /\ call.arg = [cycleType |-> "theoretical", resolution |-> Deg(7)]
    /\ Len(ret) = 103
    /\ ret[103].theta = Deg(714)

\* C10: generateCycleData terminates for every numeric step, 0 and negative
\* steps included.  The loop leaves only when theta > 720 and theta changes
\* only by  theta += resolution,  so it terminates exactly when every
\* iteration moves theta up.
C10_LoopAdvances ==
    [][(gen.pc = "loop" /\ gen'.pc = "loop") => gen'.theta > gen.theta]_vars

\* the crank angle of the state, normalized into [0, 720) degrees
NormTheta == theta % Deg(CycleDeg)

\* C6: getPhase partitions the cycle: with t the angle normalized into
\* [0,720), the result is Suction iff t in [0,180), Compression iff t in
\* [180,360), Power iff t in [360,540), Exhaust iff t in [540,720), for
\* integer and fractional, negative and large angles alike, and
\* getPhase(theta) = getPhase(theta + 720).
C6_PhasePartition ==
    call.op = "getPhase" =>
        /\ ret \in {"Suction", "Compression", "Power", "Exhaust"}
        /\ (ret = "Suction") <=> (0 <= NormTheta /\ NormTheta < Deg(180))
        /\ (ret = "Compression") <=> (Deg(180) <= NormTheta /\ NormTheta < Deg(360))
        /\ (ret = "Power") <=> (Deg(360) <= NormTheta /\ NormTheta < Deg(540))
        /\ (ret = "Exhaust") <=> (Deg(540) <= NormTheta /\ NormTheta < Deg(720))
        /\ getPhase(theta + Deg(CycleDeg)) = ret

\* getPhase has answered for a negative, fractional angle of the power stroke
C6_Witness ==
    /\ call.op = "getPhase"
    /\ theta < 0
    /\ theta % TicksPerDeg # 0
    /\ ret = "Power"

C8_SparkWindow ==
    call.op = "isSparkFiring" =>
        /\ ret <=> (/\ Deg(360 - engine.ignitionAdvance) <= NormTheta
                    /\ NormTheta <= Deg(370 - engine.ignitionAdvance))
        /\ engine.ignitionAdvance = 15 =>
              (ret <=> (Deg(345) <= NormTheta /\ NormTheta <= Deg(355)))

\* the spark fires at the closed end of the default window, 355 degrees
C8_Witness ==
    /\ call.op = "isSparkFiring"
    /\ engine.ignitionAdvance = 15
    /\ NormTheta = Deg(355)
    /\ ret = TRUE

\* both calls of the two-resolution sampling have returned
SampledTwice == call.op = "generateCycleData" /\ gen.pc = "idle"

\* C11: with the configuration unchanged between the two calls, for every
\* k in 0..360 the k-th point of generateCycleData(model, 2) has the same
\* theta, volume, pressure and phase as the (2k)-th point of
\* generateCycleData(model, 1), for both pressure models.
C11_ResolutionsAgree ==
    SampledTwice =>
        /\ Len(ret.coarse) = 361
        /\ Len(ret.fine) = 721
        /\ \A k \in 0..360 :
              /\ ret.coarse[k + 1].theta = ret.fine[2 * k + 1].theta
              /\ ret.coarse[k + 1].volume = ret.fine[2 * k + 1].volume
              /\ ret.coarse[k + 1].pressure = ret.fine[2 * k + 1].pressure
              /\ ret.coarse[k + 1].phase = ret.fine[2 * k + 1].phase

\* the actual cycle has been sampled at both resolutions at a load other
\* than the constructor's, and the points at 372 degrees agree
C11_Witness ==
    /\ SampledTwice
    /\ call.arg.cycleType = "actual"
    /\ engine.load = 20
    /\ ret.coarse[187].theta = Deg(372)
    /\ ret.fine[373] = ret.coarse[187]

\* C12: getActualPressure never returns a value below 0.1 bar, for every
\* crank angle and every configuration reachable through the constructor
\* and updateParams, in the six-phase variant and in the Wiebe variant.
C12_PressureFloor ==
    call.op \in {"getActualPressure", "getActualPressureWiebe"} => ret >= 100

\* C13: a configuration whose connecting rod is too short for the crank
\* radius (lambda = (stroke/2)/conRodLength >= 1) is never accepted by the
\* constructor or by updateParams, and no getVolume or getPistonPosition
\* call returns NaN.
C13_RodLongerThanCrank ==
    /\ engine.stroke * 10 < 2 * engine.conRodLength * 10
    /\ call.op \in {"getVolume", "getPistonPosition"} => ~IsNaN(ret)

\* C14: a configuration with a non-positive bore, a non-positive stroke or
\* compressionRatio - 1 <= 0 is never accepted by the constructor or by
\* updateParams, so no reachable state holds a clearance volume that is
\* infinite, negative or NaN.
C14_ConfigurationValid ==
    /\ engine.bore > 0
    /\ engine.stroke > 0
    /\ engine.compressionRatio - 1 > 0
    /\ IsFinite(engine.clearanceVolume)
    /\ engine.clearanceVolume >= 0

\* the calls of the page: of the animation, of the graph generator, of
\* UIControls and of the DOMContentLoaded handler
PageOps ==
    {"draw", "updateEngine", "setAngle", "start", "stop", "toggle", "animate",
     "removeMarkers", "exportChartImage", "UIControls", "updateGraphs",
     "DOMContentLoaded"}

SurfaceMissing ==
    \/ ~animation.canvas
    \/ ~graphGenerator.pvChart.exists
    \/ ~graphGenerator.pthetaChart.exists

\* C15: when a canvas element is not found, every operation of
\* EngineAnimation and of GraphGenerator skips its drawing and completes
\* without raising, and so do the DOMContentLoaded handler and
\* UIControls.updateGraphs.
C15_MissingSurfaceSkipped ==
    SurfaceMissing /\ call.op \in PageOps => ~call.raised

\* the peak of the ideal cycle, in 0.001 bar:
\* ambientPressure * compressionRatio^gamma * (1.5 + 2.0 * load / maxLoad)
OttoPeak ==
    Times(Times(engine.ambientPressure,
                MathPow(engine.compressionRatio * ONE, engine.gamma)),
          15000 + 2 * Quot(engine.load * ONE, engine.maxLoad))

\* C16: getTheoreticalPressure returns exactly ambientPressure for every
\* theta whose normalized value lies in [0,180) or [540,720), whatever the
\* geometry, load and rpm, and at the normalized angle 360 it returns
\* ambientPressure * compressionRatio^gamma * (1.5 + 2.0 * load / maxLoad).
C16_IsobaricAndPeak ==
    call.op = "getTheoreticalPressure" =>
        /\ (NormTheta < Deg(180) \/ NormTheta >= Deg(540)) =>
              ret = engine.ambientPressure
        /\ NormTheta = Deg(360) => ret = OttoPeak

\* the peak has been returned one cycle before the angle 360, at full load
\* and compression ratio 10, and it is well above the ambient pressure
C16_Witness ==
    /\ call.op = "getTheoreticalPressure"
    /\ theta = -Deg(360)
    /\ engine.load = 200
    /\ engine.compressionRatio = 10
    /\ ret = OttoPeak
    /\ ret > 50 * engine.ambientPressure

\* conRodLength > stroke / 2 and compressionRatio > 1
ValidGeometry ==
    /\ 2 * engine.conRodLength > engine.stroke
    /\ engine.compressionRatio > 1

\* C17: for every crank angle and every valid geometry getVolume(theta) lies
\* in [clearanceVolumeCc, totalVolumeCc]; getVolume(0) and getVolume(360)
\* are clearanceVolumeCc, getVolume(180) and getVolume(540) are
\* totalVolumeCc.
C17_VolumeWithinBounds ==
    ValidGeometry /\ call.op = "getVolume" =>
        /\ engine.clearanceVolumeCc <= ret
        /\ ret <= engine.totalVolumeCc
        /\ theta \in {0, Deg(360)} => ret = engine.clearanceVolumeCc
        /\ theta \in {Deg(180), Deg(540)} => ret = engine.totalVolumeCc

\* getVolume(540) has returned the total volume of an engine whose rod, 56,
\* is just longer than the crank radius, 55
C17_Witness ==
    /\ ValidGeometry
    /\ call.op = "getVolume"
    /\ theta = Deg(540)
    /\ engine.conRodLength = 56
    /\ engine.stroke = 110
    /\ ret = engine.totalVolumeCc
    /\ ret > engine.clearanceVolumeCc

\* the default configuration: bore 80, stroke 110, rod 220, compression
\* ratio 8
DefaultConfiguration ==
    /\ engine.bore = 80
    /\ engine.stroke = 110
    /\ engine.conRodLength = 220
    /\ engine.compressionRatio = 8

\* a volume in cm^3 to one decimal place, in 0.1 cm^3
OneDecimal(v) == ToFixed(v, 1000)

\* C18: for the default configuration clearanceVolumeCc is 79.9 cm^3,
\* displacementVolumeCc 552.9 cm^3 and totalVolumeCc 632.9 cm^3, each to
\* one decimal place.
C18_DefaultGeometry ==
    DefaultConfiguration =>
        /\ OneDecimal(engine.clearanceVolumeCc) = 799
        /\ OneDecimal(engine.displacementVolumeCc) = 5529
        /\ OneDecimal(engine.totalVolumeCc) = 6329

\* C18, amended: for the default configuration clearanceVolumeCc is
\* 79.0 cm^3 (the displacement volume divided by 7), displacementVolumeCc
\* 552.9 cm^3 and totalVolumeCc 631.9 cm^3, each to one decimal place.
C18_DefaultGeometryAmended ==
    DefaultConfiguration =>
        /\ OneDecimal(engine.clearanceVolumeCc) = 790
        /\ OneDecimal(engine.displacementVolumeCc) = 5529
        /\ OneDecimal(engine.totalVolumeCc) = 6319

\* the default geometry has been restored by updateParams after another
\* one, and its clearance volume is the displacement volume divided by 7
C18_Witness ==
    /\ DefaultConfiguration
    /\ call.op = "updateParams"
    /\ "bore" \in DOMAIN call.arg
    /\ "stroke" \in DOMAIN call.arg
    /\ engine.clearanceVolumeCc * 7 = engine.displacementVolumeCc
    /\ OneDecimal(engine.clearanceVolumeCc) = 790

\* both calls of getPerformanceMetrics have returned
MeasuredTwice == call.op = "getPerformanceMetrics" /\ gen.pc = "idle"

\* C19: two configurations that agree on compressionRatio report the same
\* thermalEfficiency from getPerformanceMetrics, whatever their load,
\* maxLoad, rpm, bore, stroke, rod length and ambient state; two that agree
\* on stroke and rpm report the same meanPistonSpeed.
C19_EfficiencyFromRatioOnly ==
    MeasuredTwice =>
        /\ ret.first.config.compressionRatio = ret.second.config.compressionRatio
              => ret.first.metrics.thermalEfficiency
                   = ret.second.metrics.thermalEfficiency
        /\ (/\ ret.first.config.stroke = ret.second.config.stroke
            /\ ret.first.config.rpm = ret.second.config.rpm)
              => ret.first.metrics.meanPistonSpeed
                   = ret.second.metrics.meanPistonSpeed

\* two configurations with the compression ratio 8 that differ in every
\* other field, and in their indicated pressure, report the efficiency 56.5 %
C19_Witness ==
    /\ MeasuredTwice
    /\ ret.first.config.compressionRatio = 8
    /\ ret.second.config.compressionRatio = 8
    /\ \A f \in ParamFields \ {"compressionRatio"} :
          ret.first.config[f] # ret.second.config[f]
    /\ ret.first.metrics.imep # ret.second.metrics.imep
    /\ ret.first.metrics.meanPistonSpeed # ret.second.metrics.meanPistonSpeed
    /\ ret.second.metrics.thermalEfficiency = 565

\* the queries the claim lists as shared by the two files
SharedQueries ==
    {"getVolume", "getTheoreticalPressure", "getPhase", "getValveStates",
     "isSparkFiring", "getPistonPosition", "getConRodAngle"}

\* the metrics the claim lists as shared by the two files
SharedMetrics ==
    {"displacementVolume", "compressionRatio", "thermalEfficiency", "meanPistonSpeed"}

ShowOps == {"input", "change", "click"}

\* one trapezoid term of getPerformanceMetrics, for the pair data[i - 1],
\* data[i], in 1e-4 J
TrapezoidTerm(data, i) ==
    Quot(Quot((data[i].pressure + data[i - 1].pressure) \div 2, 10)
           * (data[i].volume - data[i - 1].volume), 1000)

\* the sum of the trapezoid terms of every consecutive pair of data, taken
\* from left to right
RECURSIVE TrapezoidRun(_, _, _)
TrapezoidRun(data, lo, hi) ==
    IF lo > hi THEN 0
    ELSE TrapezoidTerm(data, lo) + TrapezoidRun(data, lo + 1, hi)

\* the same sum from the pair ending at data[lo] on, by runs of 30 pairs
RECURSIVE TrapezoidFrom(_, _)
TrapezoidFrom(data, lo) ==
    IF lo > Len(data) THEN 0
    ELSE TrapezoidRun(data, lo, IF lo + 29 < Len(data) THEN lo + 29 ELSE Len(data))
           + TrapezoidFrom(data, lo + 30)

TrapezoidSum(data) == TrapezoidFrom(data, 2)

\* a returned number is not negative (NaN is not)
NotNegative(x) == IsNaN(x) \/ x >= 0

\* the metrics shown are those of the 721 points of the actual cycle
\* sampled every degree, the work being the sum of the 720 trapezoid terms
ShowsActualCycle(data) ==
    /\ Len(data) = 721
    /\ \A i \in 1..721 : data[i].theta = Deg(i - 1)
    /\ ret.points = 721
    /\ ret.work = TrapezoidSum(data)
    /\ ret = PerformanceMetrics(engine, data)

\* C22: getPerformanceMetrics integrates the actual-pressure model sampled
\* at 1 degree: the 721 points theta = 0..720, 720 trapezoid terms over the
\* consecutive pairs, whatever cycle type the page has selected; the imep
\* and the indicatedPower it reports are never negative.
C22_MetricsOfActualCycle ==
    call.op \in ShowOps =>
        /\ ShowsActualCycle(generateCycleData(engine, "actual", Deg(1)))
        /\ NotNegative(ret.imep)
        /\ NotNegative(ret.indicatedPower)

\* C22, amended: the same, the indicatedPower being not negative provided
\* the rpm is not negative (it has the sign of the rpm)
C22_MetricsOfActualCycleAtForwardSpeed ==
    call.op \in ShowOps =>
        /\ ShowsActualCycle(generateCycleData(engine, "actual", Deg(1)))
        /\ NotNegative(ret.imep)
        /\ engine.rpm >= 0 => NotNegative(ret.indicatedPower)
        /\ engine.rpm < 0 => ret.indicatedPower <= 0

\* the metrics have been shown with the theoretical cycle selected: they
\* are those of the actual cycle, which differ from what the theoretical
\* cycle would give
C22_Witness ==
    /\ call.op \in ShowOps
    /\ ui.cycleType = "theoretical"
    /\ engine.rpm = 3000
    /\ ret.points = 721
    /\ ret.imep > 0
    /\ ret.indicatedPower > 0
    /\ ret # updateMetricsSelected(ui, engine)

\* the loads the curves of a chart were sampled with, in the order of its
\* datasets, the marker left out
PlottedLoads(chart) ==
    [i \in 1..Len(WithoutMarker(chart.datasets)) |->
        WithoutMarker(chart.datasets)[i].data[1].load]

\* the loads updateGraphs has to plot: those of the selected checkboxes, the
\* load of the engine when none is selected
SelectedLoadValues ==
    IF Len(ui.selectedLoads) = 0 THEN <<engine.load>>
    ELSE [i \in 1..Len(ui.selectedLoads) |-> loadConfigs[ui.selectedLoads[i]].load]

\* C23: updateGraphs leaves the engine configuration unchanged: for every
\* set of selected load checkboxes the engine has on return the load and
\* every other configuration and derived field it had on entry, each
\* plotted dataset is sampled with its own selected load, and the metrics
\* and the animation update that follow see the original load.
C23_UpdateGraphsRestoresEngine ==
    [][call'.op \in ShowOps =>
         /\ engine' = IF call'.op = "input" THEN updateParams(engine, call'.arg)
                      ELSE engine
         /\ PlottedLoads(graphGenerator'.pvChart) = SelectedLoadValues'
         /\ PlottedLoads(graphGenerator'.pthetaChart) = SelectedLoadValues'
         /\ ret'.load = IF call'.op = "input" THEN call'.arg.load ELSE engine.load
         /\ graphGenerator'.pvChart.datasets[MarkerIndex(graphGenerator'.pvChart.datasets)]
               .data[1].load = ret'.load]_vars

\* two loads are selected, neither the load of the engine: the curves are
\* those of the selected loads, the engine and the metrics have the load of
\* the slider, whose metrics are not those of the last selected load
C23_Witness ==
    /\ call.op = "change"
    /\ ui.selectedLoads = <<1, 4>>
    /\ engine.load = 170
    /\ PlottedLoads(graphGenerator.pvChart) = <<50, 150>>
    /\ ret.load = 170
    /\ getPerformanceMetrics(engine)
         # getPerformanceMetrics(updateParams(engine, [load |-> 150]))

\* C24: at most one animation loop runs: under any interleaving of start,
\* stop, toggle, setAngle, updateEngine and animation frames at most one
\* requested frame is pending; start while running schedules nothing and
\* does not reset lastFrameTime; each fired frame advances the angle once
\* and schedules exactly one successor while running.
C24_OneAnimationLoop ==
    [][/\ animation'.frames <= 1
       /\ animation'.frames = (IF animation'.isRunning THEN 1 ELSE 0)
       /\ call'.op = "start" /\ animation.isRunning => animation' = animation
       /\ call'.op = "animate" =>
             /\ animation.isRunning /\ animation'.isRunning
             /\ animation'.currentAngle =
                   Advanced([animation EXCEPT !.now = animation'.now], engine)
             /\ animation'.lastFrameTime = animation'.now
             /\ animation'.frames = animation.frames
             /\ animation'.fired = animation.fired + 1]_vars

\* start has been called while the animation was running, some time after
\* its last frame: one frame is pending and lastFrameTime is that of the
\* last frame
C24_Witness ==
    /\ call.op = "start"
    /\ animation.isRunning
    /\ animation.fired = 1
    /\ animation.frames = 1
    /\ animation.lastFrameTime < animation.now
    /\ animation.currentAngle > 0

\* C25: once stop, or a toggle that stops, has returned, the animation is
\* not running and no frame is pending; while it is stopped no animation
\* frame fires, only setAngle changes currentAngle, only setAngle,
\* updateEngine and the next start or toggle draw; and toggle returns the
\* new running state, the negation of the state before the call.
C25_StoppedMakesNoProgress ==
    [][/\ call'.op = "stop" \/ (call'.op = "toggle" /\ animation.isRunning) =>
             ~animation'.isRunning /\ animation'.frames = 0
       /\ ~animation.isRunning =>
             /\ call'.op # "animate"
             /\ animation'.currentAngle # animation.currentAngle =>
                   call'.op = "setAngle"
             /\ animation'.canvasShows # animation.canvasShows =>
                   call'.op \in {"setAngle", "updateEngine", "start", "toggle"}
             /\ call'.op \in {"idle", "stop", "setSpeed"} =>
                   /\ animation'.canvasShows = animation.canvasShows
                   /\ ~animation'.isRunning
       /\ call'.op = "toggle" =>
             /\ ret' = animation'.isRunning
             /\ ret' = ~animation.isRunning]_vars

\* a toggle has stopped the animation after a frame advanced the angle, and
\* returned false
C25_Witness ==
    /\ call.op = "toggle"
    /\ ret = FALSE
    /\ ~animation.isRunning
    /\ animation.fired >= 1
    /\ animation.frames = 0
    /\ animation.currentAngle > 0
    /\ animation.now > animation.lastFrameTime

\* C26: with every canvas found, rpm >= 0 and a clock that does not go
\* backwards, currentAngle stays inside one cycle, 0 <= currentAngle < 720,
\* after any sequence of setAngle calls (negative, fractional, 720 or more)
\* and animation frames.
C26_AngleInsideCycle ==
    /\ engine.rpm >= 0
    /\ animation.lastFrameTime <= animation.now
    /\ 0 <= animation.currentAngle
    /\ animation.currentAngle < Deg(CycleDeg)

\* setAngle(-30) stored 690 degrees and a frame at 6000 rpm, 16 ms later,
\* advanced it by 576 degrees past the end of the cycle, to 546 degrees
C26_Witness ==
    /\ call.op = "animate"
    /\ engine.rpm = 6000
    /\ animation.animationSpeed = 10
    /\ animation.fired = 1
    /\ animation.now = FrameMs
    /\ animation.currentAngle = Deg(546)
    /\ animation.canvasShows = Deg(546)

\* neither chart holds a 'Current Position' dataset
NoMarkers(g) ==
    /\ MarkerIndex(g.pvChart.datasets) = 0
    /\ MarkerIndex(g.pthetaChart.datasets) = 0

\* C27: when toggleAnimation returns with the animation stopped neither
\* chart holds a 'Current Position' dataset, and none appears while the
\* animation stays stopped, whatever parameter change, checkbox change,
\* reset or graph regeneration happens.
C27_MarkersStayCleared ==
    [][/\ call'.op = "toggleAnimation" /\ ~animation'.isRunning =>
             NoMarkers(graphGenerator')
       /\ ~animation.isRunning /\ NoMarkers(graphGenerator)
             /\ ~animation'.isRunning => NoMarkers(graphGenerator')]_vars

\* C28: after any sequence of changes of the eight sliders and inputs and
\* of the load checkboxes, resetToDefaults leaves the engine with the
\* configuration and derived geometry of a freshly constructed default
\* engine, and selectedLoads = [3].
C28_ResetRestoresInitialState ==
    [][call'.op = "resetToDefaults" =>
          /\ engine' = Constructor(<<>>)
          /\ \A f \in DerivedFields : engine'[f] = Constructor(<<>>)[f]
          /\ ui'.selectedLoads = <<3>>
          /\ ret' = MetricsSource(Constructor(<<>>))]_vars

\* resetToDefaults has returned: the engine is the default one, load 4 alone
\* is selected and plotted
C28_Witness ==
    /\ call.op = "resetToDefaults"
    /\ engine = Constructor(<<>>)
    /\ ui.selectedLoads = <<3>>
    /\ PlottedLoads(graphGenerator.pvChart) = <<110>>

\* C29: with the default ignitionAdvance = 15, at every crank angle where
\* isSparkFiring is true getValveStates reports both valves closed and
\* getPhase is 'Compression'; and both valves are reported open together
\* exactly for normalized theta in [0, 20) or (700, 720).
C29_NoSparkWithValveOpen ==
    /\ engine.ignitionAdvance = 15 /\ isSparkFiring(engine, theta) =>
          /\ ~getValveStates(theta).intake
          /\ ~getValveStates(theta).exhaust
          /\ getPhase(theta) = "Compression"
    /\ getValveStates(theta).intake /\ getValveStates(theta).exhaust <=>
          Normalize(theta) < Deg(20) \/ Normalize(theta) > Deg(700)

\* isSparkFiring has returned true at the last angle of the window, 355
\* degrees, of a later cycle, with the default ignitionAdvance
C29_Witness ==
    /\ call.op = "isSparkFiring"
    /\ ret = TRUE
    /\ engine.ignitionAdvance = 15
    /\ theta = Deg(CycleDeg) + Deg(355)
    /\ getValveStates(theta) = [intake |-> FALSE, exhaust |-> FALSE]

\* C30: whenever generateCycleData produces a point with theta = 720, that
\* point has the pressure (of either model) and the phase, 'Suction', of the
\* first point, theta = 0, and its volume is getVolume of the raw angle 720.
C30_CycleCloses ==
    Sampled =>
        \A i \in 1..Len(ret) :
            ret[i].theta = Deg(CycleDeg) =>
                /\ ret[1].theta = 0
                /\ ret[i].pressure = ret[1].pressure
                /\ ret[i].phase = ret[1].phase
                /\ ret[i].phase = "Suction"
                /\ ret[i].volume = getVolume(engine, Deg(CycleDeg))

\* the ideal cycle sampled every 1.5 degrees on an engine at load 2 Nm: the
\* 481st point is that of 720 degrees, at the ambient pressure of the first
C30_Witness ==
    /\ Sampled
    /\ call.arg = [cycleType |-> "theoretical", resolution |-> 3]
    /\ engine.load = 20
    /\ Len(ret) = 481
    /\ ret[481].theta = Deg(CycleDeg)
    /\ ret[481].phase = "Suction"
    /\ ret[481].pressure = ret[1].pressure

====
